---- MODULE Spec2Model ----
(***************************************************************************)
(* Slot reservation and appointment transactions of tools/llm-tools.js:   *)
(* _reservarSlot, criarAgendamentoDB and desmarcarAgendamentoDB running   *)
(* against the agenda_slots and appointments tables.  Every await on the  *)
(* store is one atomic step; the local computation that follows it, up to *)
(* the next await or the return, belongs to the same step.                *)
(***************************************************************************)
EXTENDS Integers, Sequences, FiniteSets, TLC

(***************************************************************************)
(* Bounds of the model.                                                    *)
(***************************************************************************)
NumSlots == 2      \* rows of agenda_slots
MaxCalls == 3      \* tool calls of the single caller of Spec
ConcCalls == 5     \* tool calls of the concurrent callers of SpecConc
MaxAppts == 3      \* rows of appointments
NumProcs == 2      \* concurrent callers of the booking / cancellation tools
RaceProcs == 2     \* concurrent callers of _reservarSlot in SpecRace
BookCalls == 1     \* bookings of the caller of SpecBook, observed with their payload
ListSlots == 2     \* rows of agenda_slots that vary freely under the listings
ListCalls == 1     \* listing calls of the caller of SpecList

Max(a, b) == IF a >= b THEN a ELSE b
Procs == 1..Max(NumProcs, RaceProcs)
SlotIds == 1..NumSlots
\* ids a caller may pass: the existing rows and one id that matches no row
AnySlotId == 1..(NumSlots + 1)
Medicos == {"A", "B"}
\* two doctors share every instant: slots 1 and 2 at instant 1, 3 and 4 at 2, ...
SlotTimes == 1..((NumSlots + 1) \div 2)
\* instants a caller may ask for: those of the slots and one without any slot
Times == 1..((NumSlots + 1) \div 2 + 1)
CatalogMedico(s) == IF s % 2 = 1 THEN "A" ELSE "B"
CatalogTime(s) == (s + 1) \div 2

LastTime == (NumSlots + 1) \div 2 + 1      \* the instant without any slot
\* the desired instant and doctor hint tried together with a slotId: the by-id
\* branch reads neither; one pair agrees with slot 1, the other with no slot
ByIdHints == {[isoUTC |-> 1, medicoId |-> ""], [isoUTC |-> LastTime, medicoId |-> "B"]}
\* the calls of the race: all aim at slot 1 (doctor A, instant 1), by id or by
\* instant with or without the doctor, or at nothing (unknown id, empty instant)
RaceArgs ==
  {[slotId |-> 1, isoUTC |-> 1, medicoId |-> ""],
   [slotId |-> NumSlots + 1, isoUTC |-> 1, medicoId |-> ""],
   [slotId |-> 0, isoUTC |-> 1, medicoId |-> "A"],
   [slotId |-> 0, isoUTC |-> 1, medicoId |-> ""],
   [slotId |-> 0, isoUTC |-> LastTime, medicoId |-> ""]}

Outcomes == {"ok", "error", "throw"}   \* what one store call can do

(***************************************************************************)
(* Messages of the result objects.                                         *)
(***************************************************************************)
MsgReserveError == "Erro ao reservar o horario (permissao/RLS?)."
MsgUnavailableId == "Horario indisponivel (nao estava livre ou ID invalido)."
MsgFindError == "Erro ao verificar disponibilidade."
MsgUnavailable == "Horario indisponivel."
MsgAmbiguous == "Ha mais de um medico com esse horario. Informe o medico ou escolha um horario da lista."
MsgReserveThrow == "Falha ao reservar o horario."
MsgShape == "Dados invalidos."
MsgCpf == "CPF invalido. Verifique e envie novamente."
MsgBirth == "Data de nascimento invalida. Use, por exemplo, 31/01/1990."
MsgEmail == "E-mail invalido. Verifique e envie novamente."
MsgPhone == "Telefone invalido. Envie com DDD + numero."
MsgDate == "Data/hora da consulta invalida."
MsgNeedTime == "Para confirmar o agendamento, preciso da HORA (ex.: 14:00)."
MsgInsertError == "Erro ao salvar o agendamento."
MsgBookThrow == "Erro inesperado ao agendar."
MsgBooked == "Agendamento confirmado!"
MsgNeedId == "appointmentId e obrigatorio."
MsgFetchError == "Erro ao buscar agendamento."
MsgNotFound == "Agendamento nao encontrado."
MsgCancelError == "Falha ao cancelar o agendamento."
MsgReleaseError == "Falha ao liberar o horario da agenda."
MsgCancelThrow == "Erro inesperado ao desmarcar."

VARIABLES
  agenda_slots,   \* id -> [medico_id, datetime, status]
  appointments,   \* sequence of rows, the id of a row is its index
  pc,             \* per caller: the await it is suspended at, or "idle"
  loc,            \* per caller: the local variables of the running call
  ret,            \* per caller: the result object of its last finished call
  call,           \* per caller: the running / last call and the store calls it made
  pre,            \* the tables as they were when the last fully observed call
                  \* started (valid), before that the initial tables
  viaFlow,        \* slots whose reservation was made by criarAgendamentoDB
  calls,          \* number of tool calls started
  clock,          \* [now, tz]: the instant the tools read and the clinic time zone
  catalog,        \* [medicos, especialidades]: the tables of doctors and specialties
  wa              \* the WhatsApp channel: the keys of redis (seen message ids and
                  \* the history), the turns run and the replies sent

vars == <<agenda_slots, appointments, pc, loc, ret, call, pre, viaFlow, calls,
          clock, catalog, wa>>

CANCEL_STATUS == "cancelado"

NoLoc == [caller |-> "", slotId |-> 0, isoUTC |-> 0, medicoId |-> "",
          candidate |-> 0, reservedSlot |-> 0,
          appt |-> 0, slot_id |-> 0, prevStatus |-> ""]
NoRet == [ok |-> FALSE, message |-> "", id |-> 0, slotId |-> 0]
\* what is recorded of a payload: the field checks it fails and what the date
\* normaliser returned for its dataISO
NoPayload == [bad |-> {}, norm |-> [isNull |-> TRUE, isoUTC |-> 0, hasTime |-> FALSE]]
\* a webhook message carries an id, or none (0)
MsgIds == {1, 2}
\* no key in redis (an expiry of 0 is no key), nothing run and nothing sent
NoWa == [seen |-> [m \in MsgIds |-> 0], history |-> << >>,
         turns |-> [m \in MsgIds \cup {0} |-> 0], saves |-> 0,
         sent |-> [m \in MsgIds \cup {0} |-> 0]]
NoCall == [op |-> "", slotId |-> 0, isoUTC |-> 0, medicoId |-> "", appointmentId |-> 0,
           reserved |-> 0, log |-> << >>, payload |-> NoPayload, console |-> << >>]

Fail(msg) == [ok |-> FALSE, message |-> msg, id |-> 0, slotId |-> 0]

\* String(x).toLowerCase() on the status values a row can hold
ToLower(s) ==
  CASE s = "PENDENTE" -> "pendente"
    [] s = "Pendente" -> "pendente"
    [] s = "CANCELADO" -> "cancelado"
    [] s = "Cancelado" -> "cancelado"
    [] OTHER -> s


(***************************************************************************)
(* helpers/datetime.js.  Instants and offsets are counted in hours; a      *)
(* civil day "YYYY-MM-DD" is the number d of the day, whose wall clock     *)
(* runs from hour 24*d to 24*d + 23; day 7, 14, ... is a Sunday.  A time   *)
(* zone is its offset before and from its one transition.                  *)
(***************************************************************************)
HoursPerDay == 24
DaysPerWeek == 7

TzFixed == [base |-> -3, at |-> 0, shift |-> 0]
\* Sunday 00:00 is set back to Saturday 23:00: Saturday (day 6) lasts 25 hours
TzFallMidnight == [base |-> -3, at |-> 171, shift |-> -1]
\* Sunday 00:00 is set forward to 01:00: Sunday (day 7) lasts 23 hours
TzSpringMidnight == [base |-> -4, at |-> 172, shift |-> 1]
\* Sunday 02:00 is set back to 01:00: Sunday lasts 25 hours
TzFallTwo == [base |-> -4, at |-> 174, shift |-> -1]
Tzs == {TzFixed, TzFallMidnight, TzSpringMidnight, TzFallTwo}

\* offsetMinutesAt(date, tz): the offset in effect at an instant
offsetMinutesAt(date, tz) == IF date >= tz.at THEN tz.base + tz.shift ELSE tz.base

\* Intl.DateTimeFormat('en-CA', {timeZone: tz, year, month, day}).format(date)
FormatYMD(tz, date) == (date + offsetMinutesAt(date, tz)) \div HoursPerDay

\* Intl.DateTimeFormat('en-US', {timeZone: tz, weekday}) through wkMap: 0 is Sunday
WeekdayIdx(tz, date) == FormatYMD(tz, date) % DaysPerWeek

\* mutant: one offset lookup, at the naive instant
utcFromTZComponentsOnePass(tz, ymd, h) ==
  LET naive == ymd * HoursPerDay + h
  IN naive - offsetMinutesAt(naive, tz)

\* utcFromTZComponents(tz, y, M, d, h): two offset lookups
utcFromTZComponents(tz, ymd, h) ==
  LET naive == ymd * HoursPerDay + h
      off1 == offsetMinutesAt(naive, tz)
      guess == naive - off1
      off2 == offsetMinutesAt(guess, tz)
  IN naive - off2

dayRangeUTCFromYYYYMMDD(tz, ymd) ==
  LET startUTC == utcFromTZComponents(tz, ymd, 0)
  IN [startUTC |-> startUTC, endUTC |-> startUTC + HoursPerDay]

nextDayRangeUTC(tz, base) ==
  LET todayStartUTC == utcFromTZComponents(tz, FormatYMD(tz, base), 0)
      tomorrowStartUTC == todayStartUTC + HoursPerDay
  IN [start |-> tomorrowStartUTC, end |-> tomorrowStartUTC + HoursPerDay]

\* the instants the clock may show: Saturday (day 6) 12:00 and Sunday (day 7)
\* 12:00 around the transitions, Monday (day 8) 12:00 after them
SaturdayNoon == 159
SundayNoon == 184
MondayNoon == 207
Nows == {SaturdayNoon, SundayNoon, MondayNoon}

\* the doctors and the specialties (id -> nome, a text is the tuple of its
\* characters); both doctors are of specialty 1, specialty 2 has no doctor
Catalog ==
  [medicos |-> [m \in Medicos |-> [especialidade_id |-> 1]],
   especialidades |-> <<<<"C", "a", "r", "d", "i", "o", "l", "o", "g", "i", "a">>,
                        <<"P", "e", "d", "i", "a", "t", "r", "i", "a">>>>]

(***************************************************************************)
(* The store: conditional and unconditional updates, lookups.              *)
(***************************************************************************)
SetStatus(slots, id, st) == [slots EXCEPT ![id].status = st]

\* ascending sequence of the elements of a set of ids
RECURSIVE SortedIds(_)
SortedIds(S) ==
  IF S = {} THEN << >>
  ELSE LET m == CHOOSE x \in S : \A y \in S : x <= y
       IN <<m>> \o SortedIds(S \ {m})

Take(seq, n) == SubSeq(seq, 1, IF Len(seq) < n THEN Len(seq) ELSE n)

\* mutant: the lookup stops at the first free slot
FindFirstFree(slots, isoUTC, medicoId) ==
  LET hit == {s \in DOMAIN slots :
                /\ slots[s].datetime = isoUTC
                /\ slots[s].status = "livre"
                /\ (medicoId # "" => slots[s].medico_id = medicoId)}
  IN Take(SortedIds(hit), 1)

\* mutant: the update is not conditional on the status
ReserveMatchesAnyStatus(slots, id) == id \in DOMAIN slots

\* update({status:'agendado'}).eq('id', id).eq('status','livre'): rows matched
ReserveMatches(slots, id) == id \in DOMAIN slots /\ slots[id].status = "livre"

\* the table after the conditional update livre -> agendado
ReserveUpdate(slots, id) ==
  IF ReserveMatches(slots, id) THEN SetStatus(slots, id, "agendado") ELSE slots

\* mutant: the compensating update changes nothing
RollbackUpdateNone(slots, id) == slots

\* update({status:'livre'}).eq('id', id).eq('status','agendado') of the rollbacks
RollbackUpdate(slots, id) ==
  IF id \in DOMAIN slots /\ slots[id].status = "agendado"
  THEN SetStatus(slots, id, "livre") ELSE slots

\* mutant: the cancellation leaves the slot as it is
ReleaseUpdateNone(slots, id) == slots

\* update({status:'livre'}).eq('id', slot_id) of the cancellation: no precondition
ReleaseUpdate(slots, id) ==
  IF id \in DOMAIN slots THEN SetStatus(slots, id, "livre") ELSE slots

\* select ... eq('datetime', isoUTC).eq('status','livre').order('id')
\*   [.eq('medico_id', medicoId)].limit(medicoId ? 1 : 2)
FindFree(slots, isoUTC, medicoId) ==
  LET hit == {s \in DOMAIN slots :
                /\ slots[s].datetime = isoUTC
                /\ slots[s].status = "livre"
                /\ (medicoId # "" => slots[s].medico_id = medicoId)}
  IN Take(SortedIds(hit), IF medicoId # "" THEN 1 ELSE 2)

\* if (!medicoId && found.length > 1): ask for disambiguation
IsAmbiguous(found, medicoId) == medicoId = "" /\ Len(found) > 1

\* mutant: the row takes the instant and the doctor of the request
InsertRowFromRequest(slots, l) ==
  [status |-> "pendente", slot_id |-> l.reservedSlot,
   medico_id |-> l.medicoId,
   datetime |-> l.isoUTC]

\* insertRow, from the locals l of criarAgendamentoDB: status 'pendente' and the
\* id, doctor and instant of reservedSlot
InsertRow(slots, l) ==
  [status |-> "pendente", slot_id |-> l.reservedSlot,
   medico_id |-> slots[l.reservedSlot].medico_id,
   datetime |-> slots[l.reservedSlot].datetime]

SetApptStatus(appts, id, st) == [appts EXCEPT ![id].status = st]

(***************************************************************************)
(* Input validation of criarAgendamentoDB, up to the reservation.          *)
(***************************************************************************)
\* what the language model answers to the date normaliser
ParsedDates == [hasTime : BOOLEAN, ymdLocal : BOOLEAN, iso : {0} \cup Times]
NormNull == [isNull |-> TRUE, isoUTC |-> 0, hasTime |-> FALSE]

normalizeDateTimeToUTC(parsed) ==
  IF ~parsed.ymdLocal THEN NormNull
  ELSE [isNull |-> FALSE,
        isoUTC |-> IF parsed.hasTime /\ parsed.iso # 0 THEN parsed.iso ELSE 0,
        hasTime |-> parsed.hasTime]

\* mutant: the hour is not required
ValidateNoTime(bad, norm) ==
  CASE "shape" \in bad -> MsgShape
    [] "cpf" \in bad -> MsgCpf
    [] "birth" \in bad -> MsgBirth
    [] "email" \in bad -> MsgEmail
    [] "phone" \in bad -> MsgPhone
    [] norm.isNull -> MsgDate
    [] OTHER -> ""

\* mutant: the e-mail is checked before the CPF
ValidateEmailFirst(bad, norm) ==
  CASE "shape" \in bad -> MsgShape
    [] "email" \in bad -> MsgEmail
    [] "cpf" \in bad -> MsgCpf
    [] "birth" \in bad -> MsgBirth
    [] "phone" \in bad -> MsgPhone
    [] norm.isNull -> MsgDate
    [] norm.hasTime = FALSE \/ norm.isoUTC = 0 -> MsgNeedTime
    [] OTHER -> ""

CheckNames == {"shape", "cpf", "birth", "email", "phone"}
\* the payloads tried: any set of at most two failing field checks
BadSets == {B \in SUBSET CheckNames : Cardinality(B) <= 2}

\* the message of the first failing step, "" when the reservation is reached
Validate(bad, norm) ==
  CASE "shape" \in bad -> MsgShape
    [] "cpf" \in bad -> MsgCpf
    [] "birth" \in bad -> MsgBirth
    [] "email" \in bad -> MsgEmail
    [] "phone" \in bad -> MsgPhone
    [] norm.isNull -> MsgDate
    [] norm.hasTime = FALSE \/ norm.isoUTC = 0 -> MsgNeedTime
    [] OTHER -> ""

\* the failures the payloads tried can end in before the reservation
ValidationFailures ==
  {Validate(bad, normalizeDateTimeToUTC(parsed)) :
     bad \in BadSets, parsed \in ParsedDates} \ {""}
\* the answers of the normaliser that let a payload through
GoodDates == {parsed \in ParsedDates : Validate({}, normalizeDateTimeToUTC(parsed)) = ""}

(***************************************************************************)
(* Bookkeeping shared by the steps.                                        *)
(***************************************************************************)
Snapshot == [agenda_slots |-> agenda_slots, appointments |-> appointments, valid |-> TRUE]

\* obs: "full" records the call, its store calls and the tables it started from,
\* "args" the call and its store calls, "none" nothing (and keeps no result)
Start(p, obs, max, c) ==
  /\ pc[p] = "idle"
  /\ calls < max
  /\ calls' = calls + 1
  /\ call' = IF obs = "none" THEN call ELSE [call EXCEPT ![p] = c]
  /\ pre' = IF obs = "full" THEN Snapshot ELSE pre

\* the store calls of an observed call are recorded in order, and the slot the
\* call reserved
Logged(p, kind, out, slot) ==
  call' = IF call[p].op # ""
          THEN [call EXCEPT ![p].log = Append(@, [call |-> kind, out |-> out]),
                            ![p].reserved = IF slot # 0 THEN slot ELSE @]
          ELSE call

\* console.error: a line is its text and the slot id among what is printed with
\* it (0 when no slot id is printed)
LogInsertError == "[appointments.insert] error:"
LogRollbackFailed == "[criarAgendamentoDB] rollback falhou:"
LogRollbackAfterThrowFailed == "[criarAgendamentoDB] rollback pos-exception falhou:"
LogUnexpected == "[criarAgendamentoDB] erro inesperado:"
\* a store call of an observed call recorded together with the lines printed
\* around it
LoggedAnd(p, kind, out, lines) ==
  call' = IF call[p].op # ""
          THEN [call EXCEPT ![p].log = Append(@, [call |-> kind, out |-> out]),
                            ![p].console = @ \o lines]
          ELSE call

\* no tool writes the tables of doctors and specialties, and the clock of a
\* behaviour stands still: a call reads one instant
ReturnTo(p, r, observed) ==
  /\ pc' = [pc EXCEPT ![p] = "idle"]
  /\ loc' = [loc EXCEPT ![p] = NoLoc]
  /\ ret' = IF observed THEN [ret EXCEPT ![p] = r] ELSE ret
  /\ UNCHANGED <<clock, catalog, wa>>

Return(p, r) == ReturnTo(p, r, call[p].op # "")

Goto(p, label, l) ==
  /\ pc' = [pc EXCEPT ![p] = label]
  /\ loc' = [loc EXCEPT ![p] = l]
  /\ ret' = ret
  /\ UNCHANGED <<clock, catalog, wa>>

\* a listing that reaches an await has no result yet
Await(p, label, l) ==
  /\ pc' = [pc EXCEPT ![p] = label]
  /\ loc' = [loc EXCEPT ![p] = l]
  /\ ret' = [ret EXCEPT ![p] = NoRet]
  /\ UNCHANGED <<clock, catalog, wa>>

Init ==
  /\ agenda_slots \in {f \in [SlotIds -> [medico_id : Medicos, datetime : SlotTimes,
                                          status : {"livre", "agendado"}]] :
                         \A s \in SlotIds : /\ f[s].medico_id = CatalogMedico(s)
                                            /\ f[s].datetime = CatalogTime(s)}
  /\ appointments = << >>
  /\ pc = [p \in Procs |-> "idle"]
  /\ loc = [p \in Procs |-> NoLoc]
  /\ ret = [p \in Procs |-> NoRet]
  /\ call = [p \in Procs |-> NoCall]
  /\ pre = [agenda_slots |-> agenda_slots, appointments |-> << >>, valid |-> FALSE]
  /\ viaFlow = {}
  /\ calls = 0
  /\ clock = [now |-> SaturdayNoon, tz |-> TzFixed]
  /\ catalog = Catalog
  /\ wa = NoWa


\* the new slot table, and which reservations of the booking flow still stand
Slots(newSlots, gained) ==
  /\ agenda_slots' = newSlots
  /\ viaFlow' = {s \in viaFlow \cup gained : newSlots[s].status = "agendado"}

SlotsSame == UNCHANGED <<agenda_slots, viaFlow>>

(***************************************************************************)
(* _reservarSlot                                                           *)
(***************************************************************************)
\* direct call of the helper
CallReserve(p, obs, max, args) ==
  \E a \in args :
    /\ call[p].op = ""
    /\ Start(p, obs, max, [NoCall EXCEPT !.op = "reserve", !.slotId = a.slotId,
                                    !.isoUTC = a.isoUTC, !.medicoId = a.medicoId])
    /\ Goto(p, IF a.slotId # 0 THEN "reserve" ELSE "find",
            [NoLoc EXCEPT !.caller = "reserve", !.slotId = a.slotId,
                          !.isoUTC = a.isoUTC, !.medicoId = a.medicoId])
    /\ SlotsSame
    /\ UNCHANGED appointments

\* what the caller of _reservarSlot does with its result res:
\* criarAgendamentoDB returns a failure unchanged and goes on to the insert
\* after a success; a direct call ends with res
AfterReserve(p, res) ==
  IF loc[p].caller = "book" /\ res.ok
  THEN Goto(p, "insert", [loc[p] EXCEPT !.reservedSlot = res.slotId])
  ELSE Return(p, res)

\* if (slotId): conditional update by id, maybeSingle()
ReserveById(p, outs) ==
  /\ pc[p] = "reserve"
  /\ \E out \in outs :
       LET id == loc[p].slotId
           hit == out = "ok" /\ ReserveMatches(agenda_slots, id)
           res == CASE out = "throw" -> Fail(MsgReserveThrow)
                    [] out = "error" -> Fail(MsgReserveError)
                    [] hit -> [ok |-> TRUE, message |-> "", id |-> 0, slotId |-> id]
                    [] OTHER -> Fail(MsgUnavailableId)
       IN /\ Logged(p, "reserve", out, IF hit THEN id ELSE 0)
          /\ IF out = "ok"
             THEN Slots(ReserveUpdate(agenda_slots, id),
                        IF hit /\ loc[p].caller = "book" THEN {id} ELSE {})
             ELSE SlotsSame
          /\ AfterReserve(p, res)
  /\ UNCHANGED <<appointments, pre, calls>>

\* no slotId: look the free slot up by instant and doctor
FindSlot(p, outs) ==
  /\ pc[p] = "find"
  /\ \E out \in outs :
       LET found == FindFree(agenda_slots, loc[p].isoUTC, loc[p].medicoId)
       IN /\ Logged(p, "find", out, 0)
          /\ CASE out = "throw" -> Return(p, Fail(MsgReserveThrow))
               [] out = "error" -> Return(p, Fail(MsgFindError))
               [] out = "ok" /\ Len(found) = 0 -> Return(p, Fail(MsgUnavailable))
               [] out = "ok" /\ Len(found) > 0 /\ IsAmbiguous(found, loc[p].medicoId) ->
                    Return(p, Fail(MsgAmbiguous))
               [] OTHER -> Goto(p, "lock", [loc[p] EXCEPT !.candidate = found[1]])
  /\ SlotsSame
  /\ UNCHANGED <<appointments, pre, calls>>

\* mutant: the candidate is updated whatever its status has become
LockCandidateUnconditional(p, outs) ==
  /\ pc[p] = "lock"
  /\ \E out \in outs :
       LET id == loc[p].candidate
           hit == out = "ok"
           res == CASE out = "throw" -> Fail(MsgReserveThrow)
                    [] hit -> [ok |-> TRUE, message |-> "", id |-> 0, slotId |-> id]
                    [] OTHER -> Fail(MsgUnavailable)
       IN /\ Logged(p, "reserve", out, IF hit THEN id ELSE 0)
          /\ IF out = "ok"
             THEN Slots(SetStatus(agenda_slots, id, "agendado"),
                        IF hit /\ loc[p].caller = "book" THEN {id} ELSE {})
             ELSE SlotsSame
          /\ AfterReserve(p, res)
  /\ UNCHANGED <<appointments, pre, calls>>

\* conditional update of the candidate, single()
LockCandidate(p, outs) ==
  /\ pc[p] = "lock"
  /\ \E out \in outs :
       LET id == loc[p].candidate
           hit == out = "ok" /\ ReserveMatches(agenda_slots, id)
           res == CASE out = "throw" -> Fail(MsgReserveThrow)
                    [] hit -> [ok |-> TRUE, message |-> "", id |-> 0, slotId |-> id]
                    [] OTHER -> Fail(MsgUnavailable)
       IN /\ Logged(p, "reserve", out, IF hit THEN id ELSE 0)
          /\ IF out = "ok"
             THEN Slots(ReserveUpdate(agenda_slots, id),
                        IF hit /\ loc[p].caller = "book" THEN {id} ELSE {})
             ELSE SlotsSame
          /\ AfterReserve(p, res)
  /\ UNCHANGED <<appointments, pre, calls>>

(***************************************************************************)
(* criarAgendamentoDB                                                      *)
(***************************************************************************)
\* schema.parse ... hasTime check: no store call, ends the call on a failure
CallBook(p, obs, max) ==
  /\ Len(appointments) < MaxAppts
  /\ \/ \E msg \in ValidationFailures :
          /\ Start(p, obs, max, [NoCall EXCEPT !.op = "book"])
          /\ ReturnTo(p, Fail(msg), obs # "none")
     \/ \E parsed \in GoodDates, slotId \in {0} \cup AnySlotId,
           medicoId \in {""} \cup Medicos :
          LET norm == normalizeDateTimeToUTC(parsed)
          IN /\ slotId # 0 => [isoUTC |-> norm.isoUTC, medicoId |-> medicoId] \in ByIdHints
             /\ Start(p, obs, max, [NoCall EXCEPT !.op = "book", !.slotId = slotId,
                                   !.isoUTC = norm.isoUTC, !.medicoId = medicoId])
             /\ Goto(p, IF slotId # 0 THEN "reserve" ELSE "find",
                     [NoLoc EXCEPT !.caller = "book", !.slotId = slotId,
                                   !.isoUTC = norm.isoUTC, !.medicoId = medicoId])
  /\ SlotsSame
  /\ UNCHANGED appointments

\* what the normaliser can return
NormResults == {normalizeDateTimeToUTC(parsed) : parsed \in ParsedDates}

\* the same entry of criarAgendamentoDB with the payload of the call recorded:
\* which field checks it fails, what the normaliser returned, the slotId and the
\* doctor hint, in any combination (a payload that fails before the reservation
\* is tried without slotId and with the id of slot 1, without doctor hint)
CallBookPayload(p, max) ==
  /\ Len(appointments) < MaxAppts
  /\ \E bad \in BadSets, norm \in NormResults, slotId \in {0} \cup AnySlotId,
        medicoId \in {""} \cup Medicos :
       LET msg == Validate(bad, norm)
       IN /\ msg # "" => (slotId \in {0, 1} /\ medicoId = "")
          /\ Start(p, "full", max,
                   [NoCall EXCEPT !.op = "book", !.slotId = slotId,
                                  !.isoUTC = norm.isoUTC, !.medicoId = medicoId,
                                  !.payload = [bad |-> bad, norm |-> norm]])
          /\ IF msg # ""
             THEN ReturnTo(p, Fail(msg), TRUE)
             ELSE Goto(p, IF slotId # 0 THEN "reserve" ELSE "find",
                       [NoLoc EXCEPT !.caller = "book", !.slotId = slotId,
                                     !.isoUTC = norm.isoUTC, !.medicoId = medicoId])
  /\ SlotsSame
  /\ UNCHANGED appointments

\* insert(insertRow).select().single()
InsertAppointment(p, outs) ==
  /\ pc[p] = "insert"
  /\ \E out \in outs :
       /\ LoggedAnd(p, "insert", out,
                    IF out = "error"
                    THEN <<[text |-> LogInsertError, slot |-> loc[p].reservedSlot]>>
                    ELSE << >>)
       /\ CASE out = "ok" ->
                 /\ appointments' = Append(appointments,
                                           InsertRow(agenda_slots, loc[p]))
                 /\ Return(p, [ok |-> TRUE, message |-> MsgBooked,
                               id |-> Len(appointments) + 1,
                               slotId |-> loc[p].reservedSlot])
            [] out = "error" ->
                 /\ Goto(p, "rollback_error", loc[p])
                 /\ UNCHANGED appointments
            [] out = "throw" ->
                 /\ Goto(p, "rollback_catch", loc[p])
                 /\ UNCHANGED appointments
  /\ SlotsSame
  /\ UNCHANGED <<pre, calls>>

\* if (error): rollback inside its own try, the result of the update is ignored
RollbackAfterError(p, outs) ==
  /\ pc[p] = "rollback_error"
  /\ \E out \in outs :
       /\ LoggedAnd(p, "rollback", out,
                    IF out = "throw"
                    THEN <<[text |-> LogRollbackFailed, slot |-> 0]>>
                    ELSE << >>)
       /\ IF out = "ok"
          THEN Slots(RollbackUpdate(agenda_slots, loc[p].reservedSlot), {})
          ELSE SlotsSame
       /\ Return(p, Fail(MsgInsertError))
  /\ UNCHANGED <<appointments, pre, calls>>

\* mutant: the catch block returns the failure without compensating
RollbackInCatchSkipped(p, outs) ==
  /\ pc[p] = "rollback_catch"
  /\ Return(p, Fail(MsgBookThrow))
  /\ SlotsSame
  /\ UNCHANGED <<appointments, call, pre, calls>>

\* catch (e): rollback if (reservedSlot?.id), then the generic failure
RollbackInCatch(p, outs) ==
  /\ pc[p] = "rollback_catch"
  /\ \E out \in outs :
       /\ LoggedAnd(p, "rollback", out,
                    (IF out = "throw"
                     THEN <<[text |-> LogRollbackAfterThrowFailed, slot |-> 0]>>
                     ELSE << >>)
                      \o <<[text |-> LogUnexpected, slot |-> 0]>>)
       /\ IF out = "ok"
          THEN Slots(RollbackUpdate(agenda_slots, loc[p].reservedSlot), {})
          ELSE SlotsSame
       /\ Return(p, Fail(MsgBookThrow))
  /\ UNCHANGED <<appointments, pre, calls>>


(***************************************************************************)
(* desmarcarAgendamentoDB                                                  *)
(***************************************************************************)
\* ids a caller may pass: none (0), the existing rows, one id that matches no row
AnyApptId == 0..(Len(appointments) + 1)

CancelOk(p) == [ok |-> TRUE, message |-> "", id |-> loc[p].appt, slotId |-> 0]

CallCancel(p, obs, max) ==
  \E appointmentId \in AnyApptId :
    /\ Start(p, obs, max, [NoCall EXCEPT !.op = "cancel", !.appointmentId = appointmentId])
    /\ IF appointmentId = 0
       THEN ReturnTo(p, Fail(MsgNeedId), obs # "none")
       ELSE Goto(p, "fetch", [NoLoc EXCEPT !.caller = "cancel", !.appt = appointmentId])
    /\ SlotsSame
    /\ UNCHANGED appointments

\* mutant: an id that matches no appointment is not refused
FetchWithoutCheck(p, outs) ==
  /\ pc[p] = "fetch"
  /\ Logged(p, "fetch", "ok", 0)
  /\ Return(p, CancelOk(p))
  /\ SlotsSame
  /\ UNCHANGED <<appointments, pre, calls>>

\* 1) select the appointment, maybeSingle(); prevStatus; which step comes next
FetchAppointment(p, outs) ==
  /\ pc[p] = "fetch"
  /\ \E out \in outs :
       LET id == loc[p].appt
       IN /\ Logged(p, "fetch", out, 0)
          /\ CASE out = "throw" -> Return(p, Fail(MsgCancelThrow))
               [] out = "error" -> Return(p, Fail(MsgFetchError))
               [] out = "ok" /\ id \notin DOMAIN appointments ->
                    Return(p, Fail(MsgNotFound))
               [] OTHER ->
                    LET appt == appointments[id]
                        prevStatus == ToLower(appt.status)
                        l == [loc[p] EXCEPT !.slot_id = appt.slot_id,
                                            !.prevStatus = prevStatus]
                    IN IF prevStatus # CANCEL_STATUS THEN Goto(p, "cancel", l)
                       ELSE IF appt.slot_id # 0 THEN Goto(p, "release", l)
                       ELSE Return(p, CancelOk(p))
  /\ SlotsSame
  /\ UNCHANGED <<appointments, pre, calls>>

\* 2) update the appointment to "cancelado"
CancelAppointment(p, outs) ==
  /\ pc[p] = "cancel"
  /\ \E out \in outs :
       /\ Logged(p, "cancel", out, 0)
       /\ CASE out = "throw" ->
                 /\ Return(p, Fail(MsgCancelThrow))
                 /\ UNCHANGED appointments
            [] out = "error" ->
                 /\ Return(p, Fail(MsgCancelError))
                 /\ UNCHANGED appointments
            [] out = "ok" ->
                 /\ appointments' = SetApptStatus(appointments, loc[p].appt, CANCEL_STATUS)
                 /\ IF loc[p].slot_id # 0
                    THEN Goto(p, "release", loc[p])
                    ELSE Return(p, CancelOk(p))
  /\ SlotsSame
  /\ UNCHANGED <<pre, calls>>

\* 3) set the slot to "livre", whatever its status; on slotErr go and restore
ReleaseSlot(p, outs) ==
  /\ pc[p] = "release"
  /\ \E out \in outs :
       /\ Logged(p, "release", out, 0)
       /\ CASE out = "throw" ->
                 /\ Return(p, Fail(MsgCancelThrow))
                 /\ SlotsSame
            [] out = "error" ->
                 /\ IF loc[p].prevStatus # CANCEL_STATUS
                    THEN Goto(p, "restore", loc[p])
                    ELSE Return(p, Fail(MsgReleaseError))
                 /\ SlotsSame
            [] out = "ok" ->
                 /\ Slots(ReleaseUpdate(agenda_slots, loc[p].slot_id), {})
                 /\ Return(p, [CancelOk(p) EXCEPT !.slotId = loc[p].slot_id])
  /\ UNCHANGED <<appointments, pre, calls>>

\* mutant: the failure is returned without restoring the appointment
RestoreSkipped(p, outs) ==
  /\ pc[p] = "restore"
  /\ Return(p, Fail(MsgReleaseError))
  /\ SlotsSame
  /\ UNCHANGED <<appointments, call, pre, calls>>

\* rollback of the appointment to prevStatus, inside its own try
RestoreAppointment(p, outs) ==
  /\ pc[p] = "restore"
  /\ \E out \in outs :
       /\ Logged(p, "restore", out, 0)
       /\ IF out = "ok"
          THEN appointments' = SetApptStatus(appointments, loc[p].appt, loc[p].prevStatus)
          ELSE UNCHANGED appointments
       /\ Return(p, Fail(MsgReleaseError))
  /\ SlotsSame
  /\ UNCHANGED <<pre, calls>>

(***************************************************************************)
(* The listings: tables, arguments and queries.                            *)
(***************************************************************************)
DefaultLimit == 12
HardLimit == 100

SpecialtyHardLimit == 200
DoctorsDefaultLimit == 50

MsgNeedMedico == "medicoId e obrigatorio."
MsgMedicosError == "Erro ao buscar medicos da especialidade."

\* the message of the catch block of each listing
MsgThrow(op) ==
  CASE op = "listarHorariosMedico" -> "Falha inesperada ao listar horarios do medico."
    [] op = "listarAgendaSemanalMedico" -> "Falha inesperada ao listar agenda semanal."
    [] op = "listarProximoDiaDisponivelMedico" ->
         "Falha inesperada ao buscar proximo dia disponivel."
    [] op = "listarMedicosPorEspecialidade" ->
         "Falha inesperada ao listar medicos por especialidade."
    [] op = "listarHorariosPorEspecialidade" ->
         "Falha inesperada ao listar horarios por especialidade."
    [] op = "listarAgendaSemanalEspecialidade" ->
         "Falha inesperada ao listar agenda semanal por especialidade."
    [] op = "listarProximoDiaDisponivelEspecialidade" ->
         "Falha inesperada ao buscar proximo dia disponivel por especialidade."

\* the message after an error of the query of agenda_slots at pc
MsgError(op, at) ==
  CASE op = "listarHorariosMedico" -> "Erro ao buscar horarios do medico."
    [] op = "listarHorariosPorEspecialidade" -> "Erro ao buscar horarios da especialidade."
    [] op = "listarAgendaSemanalMedico" -> "Erro ao buscar agenda semanal do medico."
    [] op = "listarAgendaSemanalEspecialidade" ->
         "Erro ao buscar agenda semanal da especialidade."
    [] op = "listarProximoDiaDisponivelMedico" /\ at = "first" ->
         "Erro ao buscar proximo dia disponivel."
    [] op = "listarProximoDiaDisponivelMedico" ->
         "Erro ao buscar slots do proximo dia disponivel."
    [] op = "listarProximoDiaDisponivelEspecialidade" /\ at = "first" ->
         "Erro ao buscar proximo dia disponivel (especialidade)."
    [] op = "listarProximoDiaDisponivelEspecialidade" ->
         "Erro ao buscar slots do proximo dia disponivel (especialidade)."

\* the rows a table is drawn from, as seen at offset -3: Saturday 09:00, the
\* hours around Sunday 00:00 (171, 172), the hours around Monday 00:00 (195,
\* 196), Monday 15:00 and Sunday 10:00; neighbours make the tables
RowOptions ==
  <<[medico_id |-> "A", datetime |-> 156, status |-> "livre"],
    [medico_id |-> "A", datetime |-> 171, status |-> "livre"],
    [medico_id |-> "A", datetime |-> 172, status |-> "agendado"],
    [medico_id |-> "A", datetime |-> 172, status |-> "livre"],
    [medico_id |-> "A", datetime |-> 195, status |-> "livre"],
    [medico_id |-> "A", datetime |-> 196, status |-> "livre"],
    [medico_id |-> "A", datetime |-> 210, status |-> "livre"],
    [medico_id |-> "A", datetime |-> 181, status |-> "livre"],
    [medico_id |-> "B", datetime |-> 181, status |-> "livre"]>>

\* a full day of free slots of doctor A, more than the hard limit: Sunday as seen
\* at offset -3, row i at hour i % 24 of it
FillRows == HardLimit + 1
FillFrom == 171
FillRow(i) == [medico_id |-> "A", datetime |-> FillFrom + (i % HoursPerDay),
               status |-> "livre"]

\* the tables of the listings: ListSlots rows of RowOptions in a row, from
\* each row on and around the end, and one table that holds the full day after
\* its first rows
RowFrom(k, i) == RowOptions[((k + i - 2) % Len(RowOptions)) + 1]
ListTables ==
  {[i \in 1..ListSlots |-> RowFrom(k, i)] : k \in DOMAIN RowOptions}
    \cup {[i \in 1..(ListSlots + FillRows) |->
            IF i <= ListSlots THEN RowOptions[i] ELSE FillRow(i - ListSlots)]}

\* the clocks of the listings: Saturday noon before each transition, Sunday
\* noon after the one at 02:00, and days without any
ListClocks ==
  {[now |-> SaturdayNoon, tz |-> TzFixed],
   [now |-> SaturdayNoon, tz |-> TzFallMidnight],
   [now |-> SaturdayNoon, tz |-> TzSpringMidnight],
   [now |-> SundayNoon, tz |-> TzFallTwo],
   [now |-> SundayNoon, tz |-> TzFixed],
   [now |-> MondayNoon, tz |-> TzFixed]}

\* args.dia / args.aPartirDe: omitted, a string that is no YYYY-MM-DD, or a day
NoDay == -1
BadDay == -2
ListDays == {6, 7, 8}
DayArgs == {NoDay, BadDay} \cup ListDays
\* args.limite: omitted or 0, or a number
LimitArgs == {0, 1, HardLimit + 50}
\* a limit is tried on the day that can hold more rows than any limit
LimitDay == FormatYMD(TzFixed, FillFrom)
\* the order of rows with equal datetime in an answer of the store is not fixed
Ties == {"asc", "desc"}
NoEnd == -1

Reverse(seq) == [i \in DOMAIN seq |-> seq[Len(seq) + 1 - i]]

\* .order('datetime', { ascending: true }) over the rows S
RECURSIVE OrderByDatetime(_, _, _)
OrderByDatetime(slots, S, tie) ==
  IF S = {} THEN << >>
  ELSE LET T == {slots[s].datetime : s \in S}
           t == CHOOSE x \in T : \A y \in T : x <= y
           B == {s \in S : slots[s].datetime = t}
       IN (IF tie = "asc" THEN SortedIds(B) ELSE Reverse(SortedIds(B)))
            \o OrderByDatetime(slots, S \ B, tie)

\* mutant: rows of any status are selected
SelectAnyStatus(slots, q, tie) ==
  LET S == {s \in DOMAIN slots :
              /\ slots[s].medico_id \in q.medicos
              /\ slots[s].datetime >= q.gte
              /\ (q.lt # NoEnd => slots[s].datetime < q.lt)
              /\ slots[s].datetime >= q.gteNow}
      all == OrderByDatetime(slots, S, tie)
  IN IF q.limit = 0 THEN all ELSE Take(all, q.limit)

\* mutant: the rows are not cut at now
SelectUntrimmed(slots, q, tie) ==
  LET S == {s \in DOMAIN slots :
              /\ slots[s].medico_id \in q.medicos
              /\ slots[s].status = "livre"
              /\ slots[s].datetime >= q.gte
              /\ (q.lt # NoEnd => slots[s].datetime < q.lt)}
      all == OrderByDatetime(slots, S, tie)
  IN IF q.limit = 0 THEN all ELSE Take(all, q.limit)

\* from('agenda_slots').select().eq|in('medico_id').gte('datetime', gte)
\*   [.lt('datetime', lt)].eq('status','livre').order('datetime')[.limit(n)]
\*   [.gte('datetime', now)]: the ids of the rows, in the order of the answer
SelectFreeSlots(slots, q, tie) ==
  LET S == {s \in DOMAIN slots :
              /\ slots[s].medico_id \in q.medicos
              /\ slots[s].status = "livre"
              /\ slots[s].datetime >= q.gte
              /\ (q.lt # NoEnd => slots[s].datetime < q.lt)
              /\ slots[s].datetime >= q.gteNow}
      all == OrderByDatetime(slots, S, tie)
  IN IF q.limit = 0 THEN all ELSE Take(all, q.limit)

\* Math.min(Number(args.limite || dflt), hard)
Limite(arg, dflt, hard) ==
  LET n == IF arg = 0 THEN dflt ELSE arg
  IN IF n < hard THEN n ELSE hard

\* the range of a day listing: the day asked for when it is a YYYY-MM-DD,
\* else tomorrow
DayListingRange(tz, now, dia) ==
  IF dia \in {NoDay, BadDay}
  THEN LET r == nextDayRangeUTC(tz, now) IN [gte |-> r.start, lt |-> r.end]
  ELSE LET r == dayRangeUTCFromYYYYMMDD(tz, dia) IN [gte |-> r.startUTC, lt |-> r.endUTC]

\* if (args.dia === todayLocalYMD) q = q.gte('datetime', now); 0 cuts nothing
TodayCut(tz, now, dia) == IF dia = FormatYMD(tz, now) THEN now ELSE 0

ListCall(op, args) ==
  [op |-> op, args |-> args, reserved |-> 0, log |-> << >>, console |-> << >>]
SlotsOk(slots) == [ok |-> TRUE, message |-> "", slots |-> slots]
DayOk(dia, slots) == [ok |-> TRUE, message |-> "", dia |-> dia, slots |-> slots]
AgendaOk(inicio, dias, agenda) ==
  [ok |-> TRUE, message |-> "", inicio |-> inicio, dias |-> dias, agenda |-> agenda]
MedicosOk(medicos) == [ok |-> TRUE, message |-> "", medicos |-> medicos]

\* the query of a day listing, built before the await
DayQuery(medicos, dia, limite, hard) ==
  LET r == DayListingRange(clock.tz, clock.now, dia)
  IN [medicos |-> medicos, gte |-> r.gte, lt |-> r.lt,
      gteNow |-> TodayCut(clock.tz, clock.now, dia),
      limit |-> Limite(limite, DefaultLimit, hard)]

InitList ==
  /\ agenda_slots \in ListTables
  /\ appointments = << >>
  /\ pc = [p \in Procs |-> "idle"]
  /\ loc = [p \in Procs |-> NoLoc]
  /\ ret = [p \in Procs |-> NoRet]
  /\ call = [p \in Procs |-> NoCall]
  /\ pre = [agenda_slots |-> agenda_slots, appointments |-> << >>, valid |-> FALSE]
  /\ viaFlow = {}
  /\ calls = 0
  /\ clock \in ListClocks
  /\ Len(agenda_slots) > ListSlots => clock = [now |-> SaturdayNoon, tz |-> TzFixed]
  /\ catalog = Catalog
  /\ wa = NoWa

(***************************************************************************)
(* normalizeEspecialidadeTerm and _resolveEspecialidadeIds                 *)
(***************************************************************************)
\* toLowerCase() and the removal of accents, on the characters in use
LowerChar(c) ==
  CASE c = "C" -> "c" [] c = "P" -> "p" [] c = "D" -> "d" [] c = "G" -> "g"
    [] c = "M" -> "m" [] OTHER -> c
StripChar(c) ==
  CASE c = "i'" -> "i" [] c = "o'" -> "o" [] c = "e'" -> "e" [] OTHER -> c
LowerText(s) == [i \in DOMAIN s |-> LowerChar(s[i])]
StripText(s) == [i \in DOMAIN s |-> StripChar(s[i])]

\* String(x).trim()
RECURSIVE TrimText(_)
TrimText(s) ==
  IF s = << >> THEN s
  ELSE IF Head(s) = " " THEN TrimText(Tail(s))
  ELSE IF s[Len(s)] = " " THEN TrimText(SubSeq(s, 1, Len(s) - 1))
  ELSE s

EndsWith(s, suf) ==
  Len(s) >= Len(suf) /\ SubSeq(s, Len(s) - Len(suf) + 1, Len(s)) = suf
\* t.replace(/suf$/i, by)
ReplaceSuffix(t, suf, by) ==
  IF EndsWith(LowerText(t), suf)
  THEN SubSeq(t, 1, Len(t) - Len(suf)) \o by
  ELSE t
\* nome ilike the pattern made of term between two wildcards
ILike(name, term) ==
  \E i \in 1..(Len(name) - Len(term) + 1) :
    LowerText(SubSeq(name, i, i + Len(term) - 1)) = LowerText(term)

\* the entries of the alias table for the texts in use
Alias ==
  {[from |-> <<"c", "a", "r", "d", "i", "o", "l", "o", "g", "i", "s", "t", "a">>, to |-> <<"c", "a", "r", "d", "i", "o", "l", "o", "g", "i", "a">>],
   [from |-> <<"p", "e", "d", "i", "a", "t", "r", "a">>, to |-> <<"p", "e", "d", "i", "a", "t", "r", "i", "a">>],
   [from |-> <<"c", "a", "r", "d", "i", "o">>, to |-> <<"c", "a", "r", "d", "i", "o", "l", "o", "g", "i", "a">>],
   [from |-> <<"c", "l", "i'", "n", "i", "c", "o", " ", "g", "e", "r", "a", "l">>, to |-> <<"c", "l", "i'", "n", "i", "c", "a", " ", "m", "e'", "d", "i", "c", "a">>]}

\* mutant: no term is normalized
normalizeNothing(s) == s

normalizeEspecialidadeTerm(s) ==
  LET t == LowerText(TrimText(s))
      tn == StripText(t)
  IN IF \E a \in Alias : a.from = t
     THEN (CHOOSE a \in Alias : a.from = t).to
     ELSE IF \E a \in Alias : StripText(LowerText(a.from)) = tn
     THEN (CHOOSE a \in Alias : StripText(LowerText(a.from)) = tn).to
     ELSE IF EndsWith(tn, <<"o", "l", "o", "g", "i", "s", "t", "a">>) THEN ReplaceSuffix(t, <<"o", "l", "o", "g", "i", "s", "t", "a">>, <<"o", "l", "o", "g", "i", "a">>)
     ELSE IF EndsWith(tn, <<"l", "o", "g", "i", "s", "t", "a">>) THEN ReplaceSuffix(t, <<"l", "o", "g", "i", "s", "t", "a">>, <<"l", "o", "g", "i", "a">>)
     ELSE IF EndsWith(tn, <<"i", "a", "t", "r", "a">>) THEN ReplaceSuffix(t, <<"i", "a", "t", "r", "a">>, <<"i", "a", "t", "r", "i", "a">>)
     ELSE IF EndsWith(tn, <<"i", "s", "t", "a">>) THEN ReplaceSuffix(t, <<"i", "s", "t", "a">>, <<"i", "a">>)
     ELSE s

\* from('especialidades').select('id, nome').ilike('nome', pattern): the ids
SelectEspecialidades(especialidades, term) ==
  SelectSeq([i \in DOMAIN especialidades |-> i],
            LAMBDA i : ILike(especialidades[i], term))

\* from('medicos').select('id').in('especialidade_id', espIds): the ids
SelectMedicosIn(medicos, espIds) ==
  {m \in DOMAIN medicos :
     \E i \in DOMAIN espIds : medicos[m].especialidade_id = espIds[i]}

\* the references to a specialty that are tried: an id (of a specialty with
\* doctors, of one without, of none), or a name that matches as it is, after
\* normalisation (to a specialty with doctors, to one without), or not at all
NoText == << >>
SpecialtyArgs ==
  {[especialidadeId |-> 0, especialidadeNome |-> NoText],
   [especialidadeId |-> 1, especialidadeNome |-> NoText],
   [especialidadeId |-> 2, especialidadeNome |-> NoText],
   [especialidadeId |-> 9, especialidadeNome |-> NoText],
   [especialidadeId |-> 0, especialidadeNome |-> <<" ", "C", "a", "r", "d", "i", "o">>],
   [especialidadeId |-> 0, especialidadeNome |-> <<"c", "a", "r", "d", "i", "o", "l", "o", "g", "i", "s", "t", "a">>],
   [especialidadeId |-> 0, especialidadeNome |-> <<"p", "e", "d", "i", "a", "t", "r", "a">>],
   [especialidadeId |-> 0, especialidadeNome |-> <<"D", "e", "n", "t", "i", "s", "t", "a">>]}

(***************************************************************************)
(* listarHorariosMedicoDB                                                  *)
(***************************************************************************)
CallHorariosMedico(p, max) ==
  \E medicoId \in {"", "A"}, dia \in DayArgs, limite \in LimitArgs :
    LET q == DayQuery({medicoId}, dia, limite, HardLimit)
    IN /\ Start(p, "full", max,
                ListCall("listarHorariosMedico",
                         [medicoId |-> medicoId, dia |-> dia, limite |-> limite]))
       /\ medicoId = "" => (dia = NoDay /\ limite = 0)
       /\ limite # 0 => dia = LimitDay
       /\ IF medicoId = ""
          THEN ReturnTo(p, Fail(MsgNeedMedico), TRUE)
          ELSE Await(p, "slots", [op |-> "listarHorariosMedico", q |-> q])
       /\ SlotsSame
       /\ UNCHANGED appointments

\* mutant: the rows that are listed are taken
SelectSlotsTaking(p, outs) ==
  /\ pc[p] = "slots"
  /\ \E out \in outs, tie \in Ties :
       /\ Logged(p, "slots", out, 0)
       /\ LET rows == SelectFreeSlots(agenda_slots, loc[p].q, tie)
          IN CASE out = "throw" -> Return(p, Fail(MsgThrow(loc[p].op))) /\ SlotsSame
               [] out = "error" -> Return(p, Fail(MsgError(loc[p].op, "slots"))) /\ SlotsSame
               [] out = "ok" ->
                    /\ Return(p, SlotsOk(rows))
                    /\ Slots([s \in DOMAIN agenda_slots |->
                                IF \E i \in DOMAIN rows : rows[i] = s
                                THEN [agenda_slots[s] EXCEPT !.status = "agendado"]
                                ELSE agenda_slots[s]], {})
  /\ UNCHANGED <<appointments, pre, calls>>

\* mutant: no catch around the query, the exception reaches the caller and
\* no result object does
SelectSlotsUncaught(p, outs) ==
  /\ pc[p] = "slots"
  /\ \E out \in outs, tie \in Ties :
       /\ Logged(p, "slots", out, 0)
       /\ CASE out = "throw" -> Return(p, Fail(""))
            [] out = "error" -> Return(p, Fail(MsgError(loc[p].op, "slots")))
            [] out = "ok" -> Return(p, SlotsOk(SelectFreeSlots(agenda_slots, loc[p].q, tie)))
  /\ SlotsSame
  /\ UNCHANGED <<appointments, pre, calls>>

\* const { data, error } = await q, and the mapping of the rows
SelectSlots(p, outs) ==
  /\ pc[p] = "slots"
  /\ \E out \in outs, tie \in Ties :
       /\ Logged(p, "slots", out, 0)
       /\ CASE out = "throw" -> Return(p, Fail(MsgThrow(loc[p].op)))
            [] out = "error" -> Return(p, Fail(MsgError(loc[p].op, "slots")))
            [] out = "ok" -> Return(p, SlotsOk(SelectFreeSlots(agenda_slots, loc[p].q, tie)))
  /\ SlotsSame
  /\ UNCHANGED <<appointments, pre, calls>>

(***************************************************************************)
(* listarAgendaSemanalMedicoDB, listarAgendaSemanalEspecialidadeDB          *)
(***************************************************************************)
\* today, the number of days through Sunday, and the bounds of the query
WeekPlan(tz, now) ==
  LET todayLocalYMD == FormatYMD(tz, now)
      todayStartUTC == dayRangeUTCFromYYYYMMDD(tz, todayLocalYMD).startUTC
      todayIdx == WeekdayIdx(tz, todayStartUTC)
      daysUntilSunday == (DaysPerWeek - todayIdx) % DaysPerWeek
      sundayDate == todayStartUTC + daysUntilSunday * HoursPerDay
      sundayLocalYMD == FormatYMD(tz, sundayDate)
  IN [todayLocalYMD |-> todayLocalYMD,
      todayStartUTC |-> todayStartUTC,
      totalDays |-> daysUntilSunday + 1,
      endOfSundayUTC |-> dayRangeUTCFromYYYYMMDD(tz, sundayLocalYMD).endUTC]

\* the query of a weekly agenda
WeekQuery(medicos) ==
  LET w == WeekPlan(clock.tz, clock.now)
  IN [medicos |-> medicos, gte |-> w.todayStartUTC, lt |-> w.endOfSundayUTC,
      gteNow |-> 0, limit |-> 0]

\* slotsByDay and the loop over i < totalDays: entry i is the day of
\* todayStartUTC + i * 24 h with the rows of that day, the first entry without
\* the rows before now
BuildAgenda(slots, rows, tz, now) ==
  LET w == WeekPlan(tz, now)
  IN [k \in 1..w.totalDays |->
        LET ymd == FormatYMD(tz, w.todayStartUTC + (k - 1) * HoursPerDay)
            daySlots == SelectSeq(rows, LAMBDA s : FormatYMD(tz, slots[s].datetime) = ymd)
        IN [dia |-> ymd,
            slots |-> IF k = 1
                      THEN SelectSeq(daySlots, LAMBDA s : slots[s].datetime >= now)
                      ELSE daySlots]]

CallAgendaSemanalMedico(p, max) ==
  \E medicoId \in {"", "A"} :
    /\ Start(p, "full", max,
             ListCall("listarAgendaSemanalMedico", [medicoId |-> medicoId]))
    /\ IF medicoId = ""
       THEN ReturnTo(p, Fail(MsgNeedMedico), TRUE)
       ELSE Await(p, "week", [op |-> "listarAgendaSemanalMedico",
                             q |-> WeekQuery({medicoId})])
    /\ SlotsSame
    /\ UNCHANGED appointments

\* const { data, error } = await supabase.from('agenda_slots')..., and the
\* agenda built from the rows
SelectWeek(p, outs) ==
  /\ pc[p] = "week"
  /\ \E out \in outs, tie \in Ties :
       /\ Logged(p, "slots", out, 0)
       /\ LET w == WeekPlan(clock.tz, clock.now)
              rows == SelectFreeSlots(agenda_slots, loc[p].q, tie)
          IN CASE out = "throw" -> Return(p, Fail(MsgThrow(loc[p].op)))
               [] out = "error" -> Return(p, Fail(MsgError(loc[p].op, "week")))
               [] out = "ok" ->
                    Return(p, AgendaOk(w.todayLocalYMD, w.totalDays,
                                       BuildAgenda(agenda_slots, rows,
                                                   clock.tz, clock.now)))
  /\ SlotsSame
  /\ UNCHANGED <<appointments, pre, calls>>

(***************************************************************************)
(* listarProximoDiaDisponivelMedicoDB, ...EspecialidadeDB                   *)
(***************************************************************************)
\* the query of the first free slot from args.aPartirDe, or from now
FirstQuery(medicos, aPartirDe) ==
  [medicos |-> medicos,
   gte |-> IF aPartirDe \in {NoDay, BadDay} THEN clock.now
           ELSE dayRangeUTCFromYYYYMMDD(clock.tz, aPartirDe).startUTC,
   lt |-> NoEnd, gteNow |-> 0, limit |-> 1]

\* the query of all free slots of the local day of the first one
DayOfFirstQuery(medicos, dia) ==
  LET r == dayRangeUTCFromYYYYMMDD(clock.tz, dia)
  IN [medicos |-> medicos, gte |-> r.startUTC, lt |-> r.endUTC,
      gteNow |-> IF dia = FormatYMD(clock.tz, clock.now) THEN clock.now ELSE 0,
      limit |-> 0]

CallProximoDiaMedico(p, max) ==
  \E medicoId \in {"", "A"}, aPartirDe \in DayArgs :
    /\ Start(p, "full", max,
             ListCall("listarProximoDiaDisponivelMedico",
                      [medicoId |-> medicoId, dia |-> aPartirDe]))
    /\ medicoId = "" => aPartirDe = NoDay
    /\ IF medicoId = ""
       THEN ReturnTo(p, Fail(MsgNeedMedico), TRUE)
       ELSE Await(p, "first", [op |-> "listarProximoDiaDisponivelMedico",
                              q |-> FirstQuery({medicoId}, aPartirDe)])
    /\ SlotsSame
    /\ UNCHANGED appointments

\* the first free slot, and the local day it is on
SelectFirst(p, outs) ==
  /\ pc[p] = "first"
  /\ \E out \in outs, tie \in Ties :
       /\ Logged(p, "first", out, 0)
       /\ LET l == loc[p]
              first == SelectFreeSlots(agenda_slots, l.q, tie)
          IN CASE out = "throw" -> Return(p, Fail(MsgThrow(l.op)))
               [] out = "error" -> Return(p, Fail(MsgError(l.op, "first")))
               [] out = "ok" ->
                    IF first = << >>
                    THEN Return(p, DayOk(NoDay, << >>))
                    ELSE LET dia == FormatYMD(clock.tz, agenda_slots[first[1]].datetime)
                         IN Await(p, "day", [op |-> l.op, dia |-> dia,
                                            q |-> DayOfFirstQuery(l.q.medicos, dia)])
  /\ SlotsSame
  /\ UNCHANGED <<appointments, pre, calls>>

\* the free slots of that day
SelectDay(p, outs) ==
  /\ pc[p] = "day"
  /\ \E out \in outs, tie \in Ties :
       /\ Logged(p, "slots", out, 0)
       /\ LET l == loc[p]
          IN CASE out = "throw" -> Return(p, Fail(MsgThrow(l.op)))
               [] out = "error" -> Return(p, Fail(MsgError(l.op, "day")))
               [] out = "ok" ->
                    Return(p, DayOk(l.dia, SelectFreeSlots(agenda_slots, l.q, tie)))
  /\ SlotsSame
  /\ UNCHANGED <<appointments, pre, calls>>

(***************************************************************************)
(* The listings by specialty: _resolveEspecialidadeIds, the doctors of the  *)
(* specialties, then the same queries as the listings of one doctor.        *)
(***************************************************************************)
SpecialtyOps ==
  {"listarMedicosPorEspecialidade", "listarHorariosPorEspecialidade",
   "listarAgendaSemanalEspecialidade", "listarProximoDiaDisponivelEspecialidade"}

\* the references tried together with every clock and table
ListRefs ==
  {r \in SpecialtyArgs :
     \/ r.especialidadeId \in {1, 2}
     \/ r.especialidadeNome \in {<<" ", "C", "a", "r", "d", "i", "o">>,
                                 <<"p", "e", "d", "i", "a", "t", "r", "a">>}}

\* what each listing returns when no specialty or no doctor is found
EmptyResult(op) ==
  CASE op = "listarMedicosPorEspecialidade" -> MedicosOk(<< >>)
    [] op = "listarHorariosPorEspecialidade" -> SlotsOk(<< >>)
    [] op = "listarAgendaSemanalEspecialidade" -> AgendaOk(NoDay, 0, << >>)
    [] op = "listarProximoDiaDisponivelEspecialidade" -> DayOk(NoDay, << >>)

\* mutant: an empty resolution is reported as a failure
AfterResolveStrict(p, espIds, l, observed) ==
  IF espIds = << >>
  THEN ReturnTo(p, Fail(MsgMedicosError), observed)
  ELSE Await(p, "medicos", [op |-> l.op, args |-> l.args, espIds |-> espIds])

\* const espIds = await _resolveEspecialidadeIds(args);
\* if (!espIds.length) return <empty>;
AfterResolve(p, espIds, l, observed) ==
  IF espIds = << >>
  THEN ReturnTo(p, EmptyResult(l.op), observed)
  ELSE Await(p, "medicos", [op |-> l.op, args |-> l.args, espIds |-> espIds])

\* a call of one of the four listings by specialty, up to the first await of
\* _resolveEspecialidadeIds; dia stands for args.dia or args.aPartirDe
CallBySpecialty(p, max, refs) ==
  \E op \in SpecialtyOps, ref \in refs, dia \in DayArgs, limite \in LimitArgs :
    LET args == [especialidadeId |-> ref.especialidadeId,
                 especialidadeNome |-> ref.especialidadeNome,
                 dia |-> dia, limite |-> limite]
        original == TrimText(ref.especialidadeNome)
        l == [op |-> op, args |-> args, original |-> original,
              normalized |-> normalizeEspecialidadeTerm(original)]
    IN /\ Start(p, "full", max, ListCall(op, args))
       /\ op \in {"listarMedicosPorEspecialidade", "listarAgendaSemanalEspecialidade"}
            => dia = NoDay
       /\ op \in {"listarAgendaSemanalEspecialidade",
                  "listarProximoDiaDisponivelEspecialidade"} => limite = 0
       /\ ref.especialidadeId # 1 => (dia = NoDay /\ limite = 0)
       /\ (limite # 0 /\ op # "listarMedicosPorEspecialidade") => dia = LimitDay
       /\ IF ref.especialidadeId # 0
          THEN AfterResolve(p, <<ref.especialidadeId>>, l, TRUE)
          ELSE IF ref.especialidadeNome = NoText
          THEN AfterResolve(p, << >>, l, TRUE)
          ELSE Await(p, "esp1", l)
       /\ SlotsSame
       /\ UNCHANGED appointments

\* 1) the query with the original term
ResolveOriginal(p, outs) ==
  /\ pc[p] = "esp1"
  /\ \E out \in outs :
       /\ Logged(p, "especialidades", out, 0)
       /\ LET l == loc[p]
              ids == SelectEspecialidades(catalog.especialidades, l.original)
          IN CASE out = "throw" -> Return(p, Fail(MsgThrow(l.op)))
               [] out = "error" -> AfterResolve(p, << >>, l, TRUE)
               [] out = "ok" ->
                    IF ids = << >> /\ l.normalized # NoText /\ l.normalized # l.original
                    THEN Await(p, "esp2", l)
                    ELSE AfterResolve(p, ids, l, TRUE)
  /\ SlotsSame
  /\ UNCHANGED <<appointments, pre, calls>>

\* 2) the query with the normalized term
ResolveNormalized(p, outs) ==
  /\ pc[p] = "esp2"
  /\ \E out \in outs :
       /\ Logged(p, "especialidades", out, 0)
       /\ LET l == loc[p]
          IN CASE out = "throw" -> Return(p, Fail(MsgThrow(l.op)))
               [] out = "error" -> AfterResolve(p, << >>, l, TRUE)
               [] out = "ok" ->
                    AfterResolve(p, SelectEspecialidades(catalog.especialidades,
                                                         l.normalized), l, TRUE)
  /\ SlotsSame
  /\ UNCHANGED <<appointments, pre, calls>>

\* .order('nome', { ascending: true }): the names are in the order of the ids
OrderByNome(medicoIds) ==
  SelectSeq(<<"A", "B">>, LAMBDA m : m \in medicoIds)

\* the query of the continuation of each listing once its doctors are known
AfterMedicos(p, op, args, medicos) ==
  CASE op = "listarHorariosPorEspecialidade" ->
         Await(p, "slots", [op |-> op,
                           q |-> DayQuery(medicos, args.dia, args.limite,
                                          SpecialtyHardLimit)])
    [] op = "listarAgendaSemanalEspecialidade" ->
         Await(p, "week", [op |-> op, q |-> WeekQuery(medicos)])
    [] op = "listarProximoDiaDisponivelEspecialidade" ->
         Await(p, "first", [op |-> op, q |-> FirstQuery(medicos, args.dia)])

\* from('medicos').select().in('especialidade_id', espIds)
SelectMedicos(p, outs) ==
  /\ pc[p] = "medicos"
  /\ \E out \in outs :
       /\ Logged(p, "medicos", out, 0)
       /\ LET l == loc[p]
              medicoIds == SelectMedicosIn(catalog.medicos, l.espIds)
          IN CASE out = "throw" -> Return(p, Fail(MsgThrow(l.op)))
               [] out = "error" -> Return(p, Fail(MsgMedicosError))
               [] out = "ok" /\ l.op = "listarMedicosPorEspecialidade" ->
                    Return(p, MedicosOk(Take(OrderByNome(medicoIds),
                                             Limite(l.args.limite, DoctorsDefaultLimit,
                                                    SpecialtyHardLimit))))
               [] out = "ok" /\ l.op # "listarMedicosPorEspecialidade" ->
                    IF medicoIds = {}
                    THEN Return(p, EmptyResult(l.op))
                    ELSE AfterMedicos(p, l.op, l.args, medicoIds)
  /\ SlotsSame
  /\ UNCHANGED <<appointments, pre, calls>>

(***************************************************************************)
(* listarEspecialidadesDB, listarMedicosDB, validarDataHora                 *)
(***************************************************************************)
MsgEspecialidadesError == "Erro ao buscar especialidades."
MsgNoEspecialidades == "Nenhuma especialidade cadastrada."
MsgEspecialidadesThrow == "Falha inesperada ao listar especialidades."
MsgNeedBusca == "Envie parte do nome do medico (ex.: Ana, Mendes)."
MsgSearchError == "Erro ao buscar medicos."
MsgSearchThrow == "Falha inesperada ao listar medicos."
MsgInvalidDate == "Data/hora invalida. Informe com dia/mes/ANO e hora."
MsgPastDay == "A data deve ser hoje ou no futuro. Informe um dia valido."
MsgNeedHour == "Informe tambem a hora (ex.: 14:00) para eu prosseguir."
MsgPastTime == "A data/hora deve ser no futuro. Informe um horario valido."

CallEspecialidades(p, max) ==
  /\ Start(p, "full", max, ListCall("listarEspecialidades", [busca |-> NoText]))
  /\ Await(p, "especialidades", [op |-> "listarEspecialidades"])
  /\ SlotsSame
  /\ UNCHANGED appointments

\* from('especialidades').select('nome').order('nome'), trimmed and unique
SelectNomes(p, outs) ==
  /\ pc[p] = "especialidades"
  /\ \E out \in outs :
       /\ Logged(p, "especialidades", out, 0)
       /\ CASE out = "throw" -> Return(p, Fail(MsgEspecialidadesThrow))
            [] out = "error" -> Return(p, Fail(MsgEspecialidadesError))
            [] out = "ok" ->
                 IF catalog.especialidades = << >>
                 THEN Return(p, Fail(MsgNoEspecialidades))
                 ELSE Return(p, [ok |-> TRUE, message |-> "",
                                 especialidades |-> [i \in DOMAIN catalog.especialidades |-> i]])
  /\ SlotsSame
  /\ UNCHANGED <<appointments, pre, calls>>

\* the search of doctors by name. A similarity is counted in ten-thousandths,
\* SimScale of them to the hundredth in which the threshold and the margin are
\* written; a confidence is counted in thousandths
SearchDefaultLimit == 8
TOP_SIM_THRESHOLD == 82
MARGIN == 12
SimScale == 100
NoConfidence == -1
\* Number(score.toFixed(3)): the nearest thousandth
ToFixed3(score) == (score + 5) \div 10

\* the answers of search_medicos_v2 that are tried: at most MaxRows rows, in
\* any order of similarity, with similarities below, at and above the
\* threshold, and apart by less than the margin, by the margin and by more
MaxRows == 3
RowIds == <<"A", "B", "C", "D">>
SimPairs ==
  {<<5000, 0>>, <<5500, 0>>, <<8199, 0>>, <<8200, 0>>, <<9399, 0>>, <<9400, 0>>,
   <<9876, 0>>, <<5000, 8200>>}
SearchAnswers ==
  UNION {{[i \in 1..n |-> [id |-> RowIds[i], sim |-> f[i][1], sim_clean |-> f[i][2]]] :
            f \in [1..n -> SimPairs]} : n \in 0..MaxRows}

Score(m) == Max(m.sim, m.sim_clean)

\* mutant: a single candidate is resolved only by its similarity
SearchResultNoUnique(data, pageSize) ==
  LET hasMore == Len(data) > pageSize
      page == Take(data, pageSize)
      best == IF page = << >> THEN 0
              ELSE CHOOSE i \in DOMAIN page :
                     \A j \in DOMAIN page :
                       Score(page[i]) > Score(page[j]) \/ (Score(page[i]) = Score(page[j]) /\ i <= j)
      second == IF Len(page) < 2 THEN 0
                ELSE CHOOSE i \in DOMAIN page \ {best} :
                       \A j \in DOMAIN page \ {best} :
                         Score(page[i]) > Score(page[j]) \/ (Score(page[i]) = Score(page[j]) /\ i <= j)
      marginOk == second = 0 \/ Score(page[best]) - Score(page[second]) >= MARGIN * SimScale
      fuzzy == best # 0 /\ Score(page[best]) >= TOP_SIM_THRESHOLD * SimScale /\ marginOk
  IN [ok |-> TRUE, message |-> "",
      medicos |-> [i \in DOMAIN page |-> page[i].id],
      hasMore |-> hasMore,
      ambiguous |-> ~fuzzy,
      resolvedMedicoId |-> IF fuzzy THEN page[best].id ELSE "",
      resolvedBy |-> IF fuzzy THEN "db_fuzzy" ELSE "",
      confidence |-> IF fuzzy THEN ToFixed3(Score(page[best])) ELSE NoConfidence]

\* mutant: the margin is not looked at
SearchResultNoMargin(data, pageSize) ==
  LET hasMore == Len(data) > pageSize
      page == Take(data, pageSize)
      best == IF page = << >> THEN 0
              ELSE CHOOSE i \in DOMAIN page :
                     \A j \in DOMAIN page :
                       Score(page[i]) > Score(page[j]) \/ (Score(page[i]) = Score(page[j]) /\ i <= j)
      unique == ~hasMore /\ Len(page) = 1
      fuzzy == ~unique /\ best # 0 /\ Score(page[best]) >= TOP_SIM_THRESHOLD * SimScale
  IN [ok |-> TRUE, message |-> "",
      medicos |-> [i \in DOMAIN page |-> page[i].id],
      hasMore |-> hasMore,
      ambiguous |-> ~(unique \/ fuzzy),
      resolvedMedicoId |-> IF unique THEN page[1].id
                           ELSE IF fuzzy THEN page[best].id ELSE "",
      resolvedBy |-> IF unique THEN "unique" ELSE IF fuzzy THEN "db_fuzzy" ELSE "",
      confidence |-> IF unique THEN 1000
                     ELSE IF fuzzy THEN ToFixed3(Score(page[best])) ELSE NoConfidence]

\* mutant: ambiguous stays as it was initialised
SearchResultAlwaysAmbiguous(data, pageSize) ==
  [SearchResultNoMargin(data, pageSize) EXCEPT !.ambiguous = TRUE]

\* the result of listarMedicosDB for the rows data and the page size
SearchResult(data, pageSize) ==
  LET hasMore == Len(data) > pageSize
      page == Take(data, pageSize)
      best == IF page = << >> THEN 0
              ELSE CHOOSE i \in DOMAIN page :
                     \A j \in DOMAIN page :
                       Score(page[i]) > Score(page[j]) \/ (Score(page[i]) = Score(page[j]) /\ i <= j)
      second == IF Len(page) < 2 THEN 0
                ELSE CHOOSE i \in DOMAIN page \ {best} :
                       \A j \in DOMAIN page \ {best} :
                         Score(page[i]) > Score(page[j]) \/ (Score(page[i]) = Score(page[j]) /\ i <= j)
      unique == ~hasMore /\ Len(page) = 1
      marginOk == second = 0 \/ Score(page[best]) - Score(page[second]) >= MARGIN * SimScale
      fuzzy == ~unique /\ best # 0 /\ Score(page[best]) >= TOP_SIM_THRESHOLD * SimScale /\ marginOk
  IN [ok |-> TRUE, message |-> "",
      medicos |-> [i \in DOMAIN page |-> page[i].id],
      hasMore |-> hasMore,
      ambiguous |-> ~(unique \/ fuzzy),
      resolvedMedicoId |-> IF unique THEN page[1].id
                           ELSE IF fuzzy THEN page[best].id ELSE "",
      resolvedBy |-> IF unique THEN "unique" ELSE IF fuzzy THEN "db_fuzzy" ELSE "",
      confidence |-> IF unique THEN 1000
                     ELSE IF fuzzy THEN ToFixed3(Score(page[best])) ELSE NoConfidence]

\* the queries that are tried: omitted, blank, a part of a name (with blanks
\* around it); the page sizes: omitted, 1, 2
Buscas == {NoText, <<" ", " ">>, <<"a", "n", "a">>, <<" ", "a", "n", "a", " ">>}
SearchLimits == {0, 1, 2}

\* mutant: a blank query is searched for like any other
CallMedicosUnchecked(p, max) ==
  \E busca \in Buscas, limite \in SearchLimits :
    /\ Start(p, "full", max, ListCall("listarMedicos", [busca |-> busca, limite |-> limite]))
    /\ TrimText(busca) = NoText => limite = 0
    /\ Await(p, "search", [op |-> "listarMedicos", q |-> TrimText(busca),
                           pageSize |-> Limite(limite, SearchDefaultLimit,
                                               SpecialtyHardLimit)])
    /\ SlotsSame
    /\ UNCHANGED appointments

CallMedicos(p, max) ==
  \E busca \in Buscas, limite \in SearchLimits :
    /\ Start(p, "full", max, ListCall("listarMedicos", [busca |-> busca, limite |-> limite]))
    /\ TrimText(busca) = NoText => limite = 0
    /\ IF TrimText(busca) = NoText
       THEN ReturnTo(p, [ok |-> TRUE, message |-> MsgNeedBusca, medicos |-> << >>,
                         needBusca |-> TRUE], TRUE)
       ELSE Await(p, "search", [op |-> "listarMedicos", q |-> TrimText(busca),
                                pageSize |-> Limite(limite, SearchDefaultLimit,
                                                    SpecialtyHardLimit)])
    /\ SlotsSame
    /\ UNCHANGED appointments

\* supabase.rpc('search_medicos_v2', { q: busca, lim: pageSize + 1 }): the
\* answer is recorded with the store call
SearchMedicos(p, outs, answers) ==
  /\ pc[p] = "search"
  /\ \E out \in outs, answer \in answers :
       /\ Len(answer) <= loc[p].pageSize + 1
       /\ out # "ok" => answer = << >>
       /\ call' = [call EXCEPT ![p].log = Append(@, [call |-> "search", out |-> out,
                                                     data |-> answer])]
       /\ CASE out = "throw" -> Return(p, Fail(MsgSearchThrow))
            [] out = "error" -> Return(p, Fail(MsgSearchError))
            [] out = "ok" -> Return(p, SearchResult(answer, loc[p].pageSize))
  /\ SlotsSame
  /\ UNCHANGED <<appointments, pre, calls>>

\* what normalizeDateTimeToUTC gives validarDataHora: null, or a local day
\* (yesterday, today or tomorrow) with or without an instant
DayDeltas == {-1, 0, 1}
ValidarNorms(tz, now) ==
  {[isNull |-> TRUE, isoUTC |-> 0, hasTime |-> FALSE, ymdLocal |-> 0]}
    \cup [isNull : {FALSE}, isoUTC : {0} \cup Times \cup {now, now + 1},
          hasTime : BOOLEAN,
          ymdLocal : {FormatYMD(tz, now) + d : d \in DayDeltas}]

\* mutant: a day without time must be after today
validarDataHoraAfterToday(norm, tz, now) ==
  LET todayYMD == FormatYMD(tz, now)
  IN IF norm.isNull THEN Fail(MsgInvalidDate)
     ELSE IF ~norm.hasTime
     THEN IF norm.ymdLocal <= todayYMD THEN Fail(MsgPastDay)
          ELSE [ok |-> TRUE, message |-> "", isoUTC |-> 0, ymdLocal |-> norm.ymdLocal,
                hasTime |-> FALSE]
     ELSE IF norm.isoUTC = 0 THEN Fail(MsgNeedHour)
     ELSE IF norm.isoUTC <= now THEN Fail(MsgPastTime)
     ELSE [ok |-> TRUE, message |-> "", isoUTC |-> norm.isoUTC,
           ymdLocal |-> norm.ymdLocal, hasTime |-> TRUE]

\* mutant: an instant equal to now is accepted
validarDataHoraNotBefore(norm, tz, now) ==
  LET todayYMD == FormatYMD(tz, now)
  IN IF norm.isNull THEN Fail(MsgInvalidDate)
     ELSE IF ~norm.hasTime
     THEN IF norm.ymdLocal < todayYMD THEN Fail(MsgPastDay)
          ELSE [ok |-> TRUE, message |-> "", isoUTC |-> 0, ymdLocal |-> norm.ymdLocal,
                hasTime |-> FALSE]
     ELSE IF norm.isoUTC = 0 THEN Fail(MsgNeedHour)
     ELSE IF norm.isoUTC < now THEN Fail(MsgPastTime)
     ELSE [ok |-> TRUE, message |-> "", isoUTC |-> norm.isoUTC,
           ymdLocal |-> norm.ymdLocal, hasTime |-> TRUE]

\* the result of validarDataHora for what the normaliser returned; isoUTC 0
\* stands for null
validarDataHora(norm, tz, now) ==
  LET todayYMD == FormatYMD(tz, now)
  IN IF norm.isNull THEN Fail(MsgInvalidDate)
     ELSE IF ~norm.hasTime
     THEN IF norm.ymdLocal < todayYMD THEN Fail(MsgPastDay)
          ELSE [ok |-> TRUE, message |-> "", isoUTC |-> 0, ymdLocal |-> norm.ymdLocal,
                hasTime |-> FALSE]
     ELSE IF norm.isoUTC = 0 THEN Fail(MsgNeedHour)
     ELSE IF norm.isoUTC <= now THEN Fail(MsgPastTime)
     ELSE [ok |-> TRUE, message |-> "", isoUTC |-> norm.isoUTC,
           ymdLocal |-> norm.ymdLocal, hasTime |-> TRUE]

\* validarDataHora makes no store call: the normaliser answers or fails, and
\* a failure of the normaliser is its null; without hasTime it gives no instant
CallValidarDataHora(p, max) ==
  \E norm \in ValidarNorms(clock.tz, clock.now) :
    /\ norm.hasTime \/ norm.isoUTC = 0
    /\ Start(p, "full", max, ListCall("validarDataHora", norm))
    /\ ReturnTo(p, validarDataHora(norm, clock.tz, clock.now), TRUE)
    /\ SlotsSame
    /\ UNCHANGED appointments

(***************************************************************************)
(* helpers/datetime.js called on its own                                   *)
(***************************************************************************)
\* zones east of UTC: Sunday 00:00 is set forward to 01:00 (offset +2, then
\* +3), and Sunday 03:00 is set back to 02:00 (offset +2, then +1)
TzEastSpringMidnight == [base |-> 2, at |-> 166, shift |-> 1]
TzEastFallThree == [base |-> 2, at |-> 169, shift |-> -1]
TimeTzs == Tzs \cup {TzEastSpringMidnight, TzEastFallThree}
\* the days of the week around the transitions, and the hours of a day
TimeDays == 4..10
Hours == 0..(HoursPerDay - 1)
\* the clocks: 15:00 UTC of each day from Friday to Monday
TimeClocks ==
  {[now |-> d * HoursPerDay + 15, tz |-> tz] : d \in 5..8, tz \in TimeTzs}

\* dayRangeUTCFromYYYYMMDD(CLINIC_TZ, ymd); its callers pass what matches
\* /^\d{4}-\d{2}-\d{2}$/
CallDayRange(p, max) ==
  \E ymd \in TimeDays :
    /\ Start(p, "full", max, ListCall("dayRangeUTCFromYYYYMMDD", [ymd |-> ymd]))
    /\ ReturnTo(p, dayRangeUTCFromYYYYMMDD(clock.tz, ymd), TRUE)
    /\ SlotsSame
    /\ UNCHANGED appointments

\* utcFromTZComponents(CLINIC_TZ, y, M, d, h)
CallUtcFromTZComponents(p, max) ==
  \E ymd \in TimeDays, h \in Hours :
    /\ Start(p, "full", max, ListCall("utcFromTZComponents", [ymd |-> ymd, h |-> h]))
    /\ ReturnTo(p, [date |-> utcFromTZComponents(clock.tz, ymd, h)], TRUE)
    /\ SlotsSame
    /\ UNCHANGED appointments

\* nextDayRangeUTC(CLINIC_TZ) at the clock
CallNextDayRange(p, max) ==
  /\ Start(p, "full", max, ListCall("nextDayRangeUTC", [base |-> clock.now]))
  /\ ReturnTo(p, nextDayRangeUTC(clock.tz, clock.now), TRUE)
  /\ SlotsSame
  /\ UNCHANGED appointments

(***************************************************************************)
(* Specifications.                                                         *)
(***************************************************************************)
ReserveSteps(p, outs) ==
  ReserveById(p, outs) \/ FindSlot(p, outs) \/ LockCandidate(p, outs)

CancelSteps(p, outs) ==
  FetchAppointment(p, outs) \/ CancelAppointment(p, outs) \/ ReleaseSlot(p, outs)

\* one caller; each call runs to its end before the next starts, and is observed;
\* every store call may succeed, return an error or throw
Next ==
  \/ CallBook(1, "full", MaxCalls)
  \/ CallCancel(1, "full", MaxCalls)
  \/ ReserveSteps(1, Outcomes)
  \/ InsertAppointment(1, Outcomes)
  \/ RollbackAfterError(1, Outcomes)
  \/ RollbackInCatch(1, Outcomes)
  \/ CancelSteps(1, Outcomes)
  \/ RestoreAppointment(1, Outcomes)

Spec == Init /\ [][Next]_vars

\* NumProcs callers of the booking and cancellation tools, interleaved at the
\* awaits, with a store that never fails
NextConc ==
  \E p \in 1..NumProcs :
    \/ CallBook(p, "none", ConcCalls)
    \/ CallCancel(p, "none", ConcCalls)
    \/ ReserveSteps(p, {"ok"})
    \/ InsertAppointment(p, {"ok"})
    \/ CancelSteps(p, {"ok"})

SpecConc == Init /\ [][NextConc]_vars

\* RaceProcs callers, each calling _reservarSlot once, interleaved at the awaits
NextRace ==
  \E p \in 1..RaceProcs :
    \/ CallReserve(p, "args", RaceProcs, RaceArgs)
    \/ ReserveSteps(p, Outcomes)

SpecRace == Init /\ [][NextRace]_vars

\* one caller of criarAgendamentoDB, every payload tried and recorded; every
\* store call may succeed, return an error or throw
NextBook ==
  \/ CallBookPayload(1, BookCalls)
  \/ ReserveSteps(1, Outcomes)
  \/ InsertAppointment(1, Outcomes)
  \/ RollbackAfterError(1, Outcomes)
  \/ RollbackInCatch(1, Outcomes)

SpecBook == Init /\ [][NextBook]_vars

\* one caller of the listings, over every table, clock and time zone of
\* InitList; every store call may succeed, return an error or throw
NextList ==
  \/ CallHorariosMedico(1, ListCalls)
  \/ CallBySpecialty(1, ListCalls, ListRefs)
  \/ ResolveOriginal(1, Outcomes)
  \/ ResolveNormalized(1, Outcomes)
  \/ SelectMedicos(1, Outcomes)
  \/ SelectSlots(1, Outcomes)
  \/ CallAgendaSemanalMedico(1, ListCalls)
  \/ SelectWeek(1, Outcomes)
  \/ CallProximoDiaMedico(1, ListCalls)
  \/ SelectFirst(1, Outcomes)
  \/ SelectDay(1, Outcomes)
  \/ CallEspecialidades(1, ListCalls)
  \/ SelectNomes(1, Outcomes)
  \/ CallMedicos(1, ListCalls)
  \/ SearchMedicos(1, Outcomes, {a \in SearchAnswers : Len(a) <= 1})

SpecList == InitList /\ [][NextList]_vars

\* every tool, called once by one caller: the tables of Init with or without an
\* appointment on slot 1, the catalog with or without specialties, the clock at
\* the instant of the first slots in a zone at offset 0; every store call may
\* succeed, return an error or throw
TzUTC == [base |-> 0, at |-> 0, shift |-> 0]
FirstInstant == 1
ToolCalls == 1

InitTools ==
  /\ agenda_slots \in {f \in [SlotIds -> [medico_id : Medicos, datetime : SlotTimes,
                                          status : {"livre", "agendado"}]] :
                         \A s \in SlotIds : /\ f[s].medico_id = CatalogMedico(s)
                                            /\ f[s].datetime = CatalogTime(s)}
  /\ appointments \in
       {<< >>} \cup {<<[status |-> "pendente", slot_id |-> 1,
                        medico_id |-> agenda_slots[1].medico_id,
                        datetime |-> agenda_slots[1].datetime]>> :
                      x \in {1} \cap {s \in SlotIds : agenda_slots[s].status = "agendado"}}
  /\ pc = [p \in Procs |-> "idle"]
  /\ loc = [p \in Procs |-> NoLoc]
  /\ ret = [p \in Procs |-> NoRet]
  /\ call = [p \in Procs |-> NoCall]
  /\ pre = [agenda_slots |-> agenda_slots, appointments |-> appointments, valid |-> FALSE]
  /\ viaFlow = {s \in SlotIds : \E i \in DOMAIN appointments : appointments[i].slot_id = s}
  /\ calls = 0
  /\ clock = [now |-> FirstInstant, tz |-> TzUTC]
  /\ catalog \in {Catalog, [Catalog EXCEPT !.especialidades = << >>]}
  /\ wa = NoWa

NextTools ==
  \/ CallValidarDataHora(1, ToolCalls)
  \/ CallBook(1, "full", ToolCalls)
  \/ CallCancel(1, "full", ToolCalls)
  \/ ReserveSteps(1, Outcomes)
  \/ InsertAppointment(1, Outcomes)
  \/ RollbackAfterError(1, Outcomes)
  \/ RollbackInCatch(1, Outcomes)
  \/ CancelSteps(1, Outcomes)
  \/ RestoreAppointment(1, Outcomes)
  \/ CallHorariosMedico(1, ToolCalls)
  \/ CallAgendaSemanalMedico(1, ToolCalls)
  \/ CallProximoDiaMedico(1, ToolCalls)
  \/ CallBySpecialty(1, ToolCalls, ListRefs)
  \/ ResolveOriginal(1, Outcomes)
  \/ ResolveNormalized(1, Outcomes)
  \/ SelectMedicos(1, Outcomes)
  \/ SelectSlots(1, Outcomes)
  \/ SelectWeek(1, Outcomes)
  \/ SelectFirst(1, Outcomes)
  \/ SelectDay(1, Outcomes)
  \/ CallEspecialidades(1, ToolCalls)
  \/ SelectNomes(1, Outcomes)
  \/ CallMedicos(1, ToolCalls)
  \/ SearchMedicos(1, Outcomes, {a \in SearchAnswers : Len(a) <= 1})

SpecTools == InitTools /\ [][NextTools]_vars

\* one caller of the listings by specialty, with every reference of
\* SpecialtyArgs, on a Monday in a zone without transition
InitSpecialty ==
  /\ InitList
  /\ clock = [now |-> MondayNoon, tz |-> TzFixed]
  /\ Len(agenda_slots) = ListSlots

NextSpecialty ==
  \/ CallBySpecialty(1, ListCalls, SpecialtyArgs)
  \/ ResolveOriginal(1, Outcomes)
  \/ ResolveNormalized(1, Outcomes)
  \/ SelectMedicos(1, Outcomes)
  \/ SelectSlots(1, Outcomes)
  \/ SelectWeek(1, Outcomes)
  \/ SelectFirst(1, Outcomes)
  \/ SelectDay(1, Outcomes)

SpecSpecialty == InitSpecialty /\ [][NextSpecialty]_vars


\* one caller of the listings by specialty over every catalog of at most
\* ResolveNames specialties, referred to by a professional title or by the noun
\* of a specialty; both doctors are of the first specialty of the catalog
ResolveNames == 2
NamePool ==
  {<<"C", "a", "r", "d", "i", "o", "l", "o", "g", "i", "a">>,
   <<"P", "e", "d", "i", "a", "t", "r", "i", "a">>,
   <<"C", "a", "r", "d", "i", "o", "l", "o", "g", "i", "s", "t", "a">>,
   <<"C", "l", "i'", "n", "i", "c", "o", " ", "G", "e", "r", "a", "l">>,
   <<"C", "l", "i'", "n", "i", "c", "a", " ", "M", "e'", "d", "i", "c", "a">>}
ResolveCatalogs ==
  {c \in UNION {[1..n -> NamePool] : n \in 0..ResolveNames} :
     \A i, j \in DOMAIN c : i # j => c[i] # c[j]}
TitleAliases ==
  {[from |-> <<"C", "a", "r", "d", "i", "o", "l", "o", "g", "i", "s", "t", "a">>, to |-> <<"c", "a", "r", "d", "i", "o", "l", "o", "g", "i", "a">>],
   [from |-> <<"p", "e", "d", "i", "a", "t", "r", "a">>, to |-> <<"p", "e", "d", "i", "a", "t", "r", "i", "a">>],
   [from |-> <<"c", "l", "i'", "n", "i", "c", "o", " ", "g", "e", "r", "a", "l">>, to |-> <<"c", "l", "i'", "n", "i", "c", "a", " ", "m", "e'", "d", "i", "c", "a">>]}
ResolveArgs ==
  {[especialidadeId |-> 0, especialidadeNome |-> n] :
     n \in {a.from : a \in TitleAliases} \cup {a.to : a \in TitleAliases}}

InitResolve ==
  /\ agenda_slots = [i \in 1..ListSlots |-> RowFrom(7, i)]
  /\ appointments = << >>
  /\ pc = [p \in Procs |-> "idle"]
  /\ loc = [p \in Procs |-> NoLoc]
  /\ ret = [p \in Procs |-> NoRet]
  /\ call = [p \in Procs |-> NoCall]
  /\ pre = [agenda_slots |-> agenda_slots, appointments |-> << >>, valid |-> FALSE]
  /\ viaFlow = {}
  /\ calls = 0
  /\ clock = [now |-> MondayNoon, tz |-> TzFixed]
  /\ catalog \in {[Catalog EXCEPT !.especialidades = c] : c \in ResolveCatalogs}
  /\ wa = NoWa

NextResolve ==
  \/ CallBySpecialty(1, ListCalls, ResolveArgs)
  \/ ResolveOriginal(1, Outcomes)
  \/ ResolveNormalized(1, Outcomes)
  \/ SelectMedicos(1, Outcomes)
  \/ SelectSlots(1, Outcomes)
  \/ SelectWeek(1, Outcomes)
  \/ SelectFirst(1, Outcomes)
  \/ SelectDay(1, Outcomes)

SpecResolve == InitResolve /\ [][NextResolve]_vars

\* one caller of the search of doctors by name, with every answer of the
\* search
NextSearch ==
  \/ CallMedicos(1, ToolCalls)
  \/ SearchMedicos(1, Outcomes, SearchAnswers)

InitSearch ==
  /\ InitTools
  /\ \A s \in SlotIds : agenda_slots[s].status = "livre"
  /\ catalog = Catalog

SpecSearch == InitSearch /\ [][NextSearch]_vars

\* one caller of validarDataHora, at noon and late in the evening (at 22:00
\* the day of the clinic is not the day of UTC), around each transition
SaturdayEvening == 169
ValidateClocks ==
  ListClocks \cup {[now |-> SaturdayEvening, tz |-> tz] : tz \in Tzs}

InitValidate ==
  /\ agenda_slots = [i \in 1..ListSlots |-> RowFrom(7, i)]
  /\ appointments = << >>
  /\ pc = [p \in Procs |-> "idle"]
  /\ loc = [p \in Procs |-> NoLoc]
  /\ ret = [p \in Procs |-> NoRet]
  /\ call = [p \in Procs |-> NoCall]
  /\ pre = [agenda_slots |-> agenda_slots, appointments |-> << >>, valid |-> FALSE]
  /\ viaFlow = {}
  /\ calls = 0
  /\ clock \in ValidateClocks
  /\ catalog = Catalog
  /\ wa = NoWa

NextValidate == CallValidarDataHora(1, ToolCalls)

SpecValidate == InitValidate /\ [][NextValidate]_vars

\* the functions of helpers/datetime.js, called once in each zone at each clock
InitTime ==
  /\ agenda_slots = [i \in 1..ListSlots |-> RowFrom(7, i)]
  /\ appointments = << >>
  /\ pc = [p \in Procs |-> "idle"]
  /\ loc = [p \in Procs |-> NoLoc]
  /\ ret = [p \in Procs |-> NoRet]
  /\ call = [p \in Procs |-> NoCall]
  /\ pre = [agenda_slots |-> agenda_slots, appointments |-> << >>, valid |-> FALSE]
  /\ viaFlow = {}
  /\ calls = 0
  /\ clock \in TimeClocks
  /\ catalog = Catalog
  /\ wa = NoWa

NextTime ==
  \/ CallDayRange(1, ToolCalls)
  \/ CallUtcFromTZComponents(1, ToolCalls)
  \/ CallNextDayRange(1, ToolCalls)

SpecTime == InitTime /\ [][NextTime]_vars

(***************************************************************************)
(* Properties.                                                             *)
(***************************************************************************)
StoreFaultMsgs == {MsgReserveError, MsgReserveThrow, MsgFindError}
Racers == 1..RaceProcs
Winners(s) == {p \in Racers : ret[p].ok /\ ret[p].slotId = s}
\* every racer called reserve(slotId = s) and has returned
AllRacedById(s) ==
  \A p \in Racers : /\ call[p].op = "reserve"
                    /\ call[p].slotId = s
                    /\ pc[p] = "idle"

\* C1: when slot 1 starts free and all N >= 2 concurrent callers call
\* reserve(slotId = 1), then in every interleaving at most one of them succeeds
\* and the slot is reserved exactly if one did; when no store call of theirs
\* failed, exactly one succeeds, every other one gets the SlotUnavailable
\* failure, and the slot ends reserved.
C1_ReservationExclusivity ==
  (RaceProcs >= 2 /\ pre.agenda_slots[1].status = "livre" /\ AllRacedById(1)) =>
    /\ Cardinality(Winners(1)) <= 1
    /\ (agenda_slots[1].status = "agendado") <=> (Winners(1) # {})
    /\ (\A p \in Racers : ret[p].message \notin StoreFaultMsgs) =>
         /\ Cardinality(Winners(1)) = 1
         /\ \A p \in Racers \ Winners(1) : ret[p] = Fail(MsgUnavailableId)
         /\ agenda_slots[1].status = "agendado"

C1_Witness ==
  /\ pre.agenda_slots[1].status = "livre"
  /\ AllRacedById(1)
  /\ \A p \in Racers : ret[p].message \notin StoreFaultMsgs
  /\ Cardinality(Winners(1)) = 1
  /\ \E p \in Racers : ret[p] = Fail(MsgUnavailableId)


Live(i) == appointments[i].status # CANCEL_STATUS
AllIdle == \A p \in Procs : pc[p] = "idle"

\* C2: under any interleaving of bookings and cancellations, repeated
\* cancellations of one appointment included, no two appointments that are not
\* canceled reference the same slot.
C2_NoDoubleBooking ==
  \A i, j \in DOMAIN appointments :
    (i # j /\ Live(i) /\ Live(j)) => appointments[i].slot_id # appointments[j].slot_id

\* C3: whenever no booking or cancellation is in progress, every appointment
\* that is not canceled references one slot and that slot is reserved, and every
\* slot reserved by a booking and still reserved is referenced by exactly one
\* appointment that is not canceled.
C3_Ownership ==
  AllIdle =>
    /\ \A i \in DOMAIN appointments :
         Live(i) => /\ appointments[i].slot_id \in SlotIds
                    /\ agenda_slots[appointments[i].slot_id].status = "agendado"
    /\ \A s \in viaFlow :
         agenda_slots[s].status = "agendado" =>
           Cardinality({i \in DOMAIN appointments :
                          Live(i) /\ appointments[i].slot_id = s}) = 1


(***************************************************************************)
(* Properties of one observed call (Spec): the call of caller 1 has        *)
(* returned, pre holds the tables it started from, call[1].log its store   *)
(* calls.                                                                  *)
(***************************************************************************)
Done(op) == pc[1] = "idle" /\ pre.valid /\ call[1].op = op
Log == call[1].log
HasLog(kind, out) == \E i \in DOMAIN Log : Log[i] = [call |-> kind, out |-> out]
InsertFailedAfterReserve ==
  /\ Done("book")
  /\ call[1].reserved \in SlotIds
  /\ HasLog("insert", "error")
  /\ ~ret[1].ok

\* C4 as claimed: whenever bookAppointment reserved a slot, the insert returned
\* an error and the call returned ok:false, the slot is free again and no
\* appointment was created.
C4_Original ==
  InsertFailedAfterReserve =>
    /\ agenda_slots[call[1].reserved].status = "livre"
    /\ appointments = pre.appointments

\* C4 (amended): whenever bookAppointment reserved a slot, the insert returned
\* an error and the compensating update succeeded, the call returns ok:false,
\* the slot is free again (as it was before the call, so that a later reserve
\* succeeds) and no appointment was created.
C4_Compensation ==
  (InsertFailedAfterReserve /\ HasLog("rollback", "ok")) =>
    /\ ret[1] = Fail(MsgInsertError)
    /\ agenda_slots[call[1].reserved].status = "livre"
    /\ agenda_slots = pre.agenda_slots
    /\ appointments = pre.appointments

C4_Witness ==
  /\ InsertFailedAfterReserve
  /\ HasLog("rollback", "ok")
  /\ agenda_slots[call[1].reserved].status = "livre"

\* the appointment a cancellation was called for, when it existed before the call
CancelTarget == call[1].appointmentId
CancelOfExisting ==
  /\ Done("cancel")
  /\ CancelTarget \in DOMAIN pre.appointments
  /\ pre.appointments[CancelTarget].slot_id \in SlotIds

\* C5: cancelAppointment on an existing appointment that references a slot,
\* with every store call succeeding, returns ok:true, leaves the appointment
\* canceled and its slot free, whether the appointment was already canceled
\* (a second call) or not (a first call).
C5_CancelIdempotent ==
  (CancelOfExisting /\ \A i \in DOMAIN Log : Log[i].out = "ok") =>
    /\ ret[1].ok
    /\ ret[1].id = CancelTarget
    /\ ret[1].slotId = pre.appointments[CancelTarget].slot_id
    /\ appointments[CancelTarget].status = CANCEL_STATUS
    /\ agenda_slots[pre.appointments[CancelTarget].slot_id].status = "livre"

\* the second of two cancellations has returned ok:true
C5_Witness ==
  /\ CancelOfExisting
  /\ pre.appointments[CancelTarget].status = CANCEL_STATUS
  /\ ret[1].ok
  /\ agenda_slots[ret[1].slotId].status = "livre"

\* C6: whenever bookAppointment returns ok:true, exactly one slot changed, from
\* free to reserved, and exactly one appointment was added, pending, with the
\* id, doctor and instant of that slot, whatever desired date or doctor hint was
\* passed; nothing else changed.
C6_BookingConsistent ==
  (Done("book") /\ ret[1].ok) =>
    \E s \in SlotIds :
      /\ pre.agenda_slots[s].status = "livre"
      /\ agenda_slots = [pre.agenda_slots EXCEPT ![s].status = "agendado"]
      /\ appointments = Append(pre.appointments,
                               [status |-> "pendente", slot_id |-> s,
                                medico_id |-> CatalogMedico(s),
                                datetime |-> CatalogTime(s)])
      /\ ret[1].id = Len(appointments)
      /\ ret[1].slotId = s

\* a booking by slotId succeeded although the desired instant and the doctor
\* hint were those of no slot
C6_Witness ==
  /\ Done("book")
  /\ ret[1].ok
  /\ call[1].slotId \in SlotIds
  /\ call[1].isoUTC # CatalogTime(call[1].slotId)
  /\ call[1].medicoId \notin {"", CatalogMedico(call[1].slotId)}

\* C7: when the insert of bookAppointment throws after the slot was reserved,
\* the compensating update of that slot is the next store call, made before the
\* failure is returned; when it succeeds the slot is free.
C7_RollbackOnException ==
  Done("book") =>
    \A i \in DOMAIN Log :
      (Log[i] = [call |-> "insert", out |-> "throw"]) =>
        /\ call[1].reserved \in SlotIds
        /\ i < Len(Log)
        /\ Log[i + 1].call = "rollback"
        /\ Log[i + 1].out = "ok" => agenda_slots[call[1].reserved].status = "livre"
        /\ ~ret[1].ok

C7_Witness ==
  /\ Done("book")
  /\ HasLog("insert", "throw")
  /\ HasLog("rollback", "ok")
  /\ ret[1] = Fail(MsgBookThrow)

ReleaseFailedAfterCancel ==
  /\ CancelOfExisting
  /\ pre.appointments[CancelTarget].status # CANCEL_STATUS
  /\ HasLog("cancel", "ok")
  /\ HasLog("release", "error")

LastOut(l) == l[Len(l)].out
\* caller p leaves the await at label `at` in this step
Leaves(p, at) == pc[p] = at /\ pc'[p] # at
SlotsAt(t) == {s \in SlotIds : agenda_slots[s].datetime = t}
FreeSlotsAt(t) == {s \in SlotsAt(t) : agenda_slots[s].status = "livre"}

\* C9 as claimed: a lookup without slotId and doctor that finds more than one
\* slot at the instant, whatever their status, ends the call with AmbiguousSlot
\* and changes no slot.
C9_Original ==
  [][\A p \in Racers :
       (/\ Leaves(p, "find")
        /\ loc[p].medicoId = ""
        /\ LastOut(call'[p].log) = "ok"
        /\ Cardinality(SlotsAt(loc[p].isoUTC)) > 1)
       => /\ pc'[p] = "idle"
          /\ ret'[p] = Fail(MsgAmbiguous)
          /\ agenda_slots' = agenda_slots]_vars

\* C9 (amended): a successful lookup without slotId and doctor that finds more
\* than one free slot at the instant ends the call with AmbiguousSlot, goes on
\* to no update and changes no slot; with exactly one free slot there it goes on
\* to reserve that slot.
C9_AmbiguousSlot ==
  [][\A p \in Racers :
       (/\ Leaves(p, "find")
        /\ loc[p].medicoId = ""
        /\ LastOut(call'[p].log) = "ok")
       => /\ agenda_slots' = agenda_slots
          /\ Cardinality(FreeSlotsAt(loc[p].isoUTC)) > 1 =>
               (pc'[p] = "idle" /\ ret'[p] = Fail(MsgAmbiguous))
          /\ Cardinality(FreeSlotsAt(loc[p].isoUTC)) = 1 =>
               (pc'[p] = "lock" /\ loc'[p].candidate \in FreeSlotsAt(loc[p].isoUTC))]_vars

C9_Witness ==
  \E p \in Racers :
    /\ call[p].slotId = 0
    /\ call[p].medicoId = ""
    /\ ret[p] = Fail(MsgAmbiguous)
    /\ \A s \in SlotsAt(call[p].isoUTC) : agenda_slots[s] = pre.agenda_slots[s]

\* C10: a reserve(slotId) whose update reaches the store when the id matches no
\* slot, or the slot is not free, returns the SlotUnavailable failure; with or
\* without a store failure such a call returns a failure and leaves every slot as
\* it was.
C10_UnavailableById ==
  [][\A p \in Racers :
       (/\ Leaves(p, "reserve")
        /\ \/ loc[p].slotId \notin SlotIds
           \/ agenda_slots[loc[p].slotId].status # "livre")
       => /\ pc'[p] = "idle"
          /\ ~ret'[p].ok
          /\ agenda_slots' = agenda_slots
          /\ LastOut(call'[p].log) = "ok" => ret'[p] = Fail(MsgUnavailableId)]_vars

\* one caller was refused on an id that matches no slot, another on a slot that
\* was not free
C10_Witness ==
  \E p, q \in Racers :
    /\ call[p].slotId \notin SlotIds \cup {0}
    /\ ret[p] = Fail(MsgUnavailableId)
    /\ call[q].slotId \in SlotIds
    /\ ret[q] = Fail(MsgUnavailableId)
    /\ agenda_slots[call[q].slotId].status = "agendado"

(***************************************************************************)
(* Properties of one booking observed with its payload (SpecBook).         *)
(***************************************************************************)
Payload == call[1].payload
\* the normaliser returned a date, but no explicit time or no absolute instant
NoExplicitTime ==
  /\ ~Payload.norm.isNull
  /\ (Payload.norm.hasTime = FALSE \/ Payload.norm.isoUTC = 0)
TablesAsBefore ==
  /\ agenda_slots = pre.agenda_slots
  /\ appointments = pre.appointments

\* C11: when the normaliser of the desired date returns a date without an
\* explicit time (hasTime false, or no absolute instant), bookAppointment
\* returns ok:false with a message, with or without a slotId; it makes no store
\* call, reserves no slot and creates no appointment; when every field check
\* passed the failure is the one asking for the hour.
C11_TimeRequired ==
  (Done("book") /\ NoExplicitTime) =>
    /\ ~ret[1].ok
    /\ ret[1].message # ""
    /\ Log = << >>
    /\ call[1].reserved = 0
    /\ TablesAsBefore
    /\ Payload.bad = {} => ret[1] = Fail(MsgNeedTime)

\* a booking with the id of a free slot and a date without time was refused
C11_Witness ==
  /\ Done("book")
  /\ NoExplicitTime
  /\ Payload.bad = {}
  /\ call[1].slotId \in SlotIds
  /\ pre.agenda_slots[call[1].slotId].status = "livre"
  /\ agenda_slots[call[1].slotId].status = "livre"
  /\ ret[1] = Fail(MsgNeedTime)

\* the steps before the reservation, in the order of the contract, and the
\* failure of each
StepOrder == <<"shape", "cpf", "birth", "email", "phone", "date", "time">>
StepMsg(step) ==
  CASE step = "shape" -> MsgShape
    [] step = "cpf" -> MsgCpf
    [] step = "birth" -> MsgBirth
    [] step = "email" -> MsgEmail
    [] step = "phone" -> MsgPhone
    [] step = "date" -> MsgDate
    [] step = "time" -> MsgNeedTime
StepFails(step) ==
  CASE step = "date" -> Payload.norm.isNull
    [] step = "time" -> Payload.norm.hasTime = FALSE \/ Payload.norm.isoUTC = 0
    [] OTHER -> step \in Payload.bad
FailingSteps == {i \in DOMAIN StepOrder : StepFails(StepOrder[i])}
FirstFailing == CHOOSE i \in FailingSteps : \A j \in FailingSteps : i <= j
\* what _reservarSlot returns when it fails, by its last store call
ReserveFailures ==
  LET last == Log[Len(Log)]
  IN CASE last.out = "throw" -> {MsgReserveThrow}
       [] last.call = "find" /\ last.out = "error" -> {MsgFindError}
       [] last.call = "find" -> {MsgUnavailable, MsgAmbiguous}
       [] call[1].slotId # 0 /\ last.out = "error" -> {MsgReserveError}
       [] call[1].slotId # 0 -> {MsgUnavailableId}
       [] OTHER -> {MsgUnavailable}

\* C12: bookAppointment makes its first store call, the reservation, only when
\* the shape, the CPF, the birthdate, the e-mail, the phone and the desired date
\* all passed; when a step fails the call returns the failure of the first
\* failing step in that order and the tables are as before; when the
\* reservation fails its failure is the result of the call, no insert is made
\* and the tables are as before.
C12_ValidationOrder ==
  Done("book") =>
    /\ FailingSteps # {} =>
         /\ Log = << >>
         /\ ret[1] = Fail(StepMsg(StepOrder[FirstFailing]))
         /\ TablesAsBefore
    /\ FailingSteps = {} =>
         /\ Log # << >>
         /\ Log[1].call = IF call[1].slotId # 0 THEN "reserve" ELSE "find"
         /\ call[1].reserved = 0 =>
              /\ ~ret[1].ok
              /\ ret[1].message \in ReserveFailures
              /\ ~\E i \in DOMAIN Log : Log[i].call = "insert"
              /\ TablesAsBefore

\* a payload failing the CPF check, the e-mail check and the date normaliser was
\* refused for its CPF while a slot was free
C12_Witness ==
  /\ Done("book")
  /\ Payload.bad = {"cpf", "email"}
  /\ Payload.norm.isNull
  /\ ret[1] = Fail(MsgCpf)
  /\ \E s \in SlotIds : agenda_slots[s].status = "livre"

(***************************************************************************)
(* Cancellation of an appointment that does not exist (Spec).              *)
(***************************************************************************)
CancelOfMissing ==
  /\ Done("cancel")
  /\ CancelTarget # 0
  /\ CancelTarget \notin DOMAIN pre.appointments

\* C13: cancelAppointment with an id that matches no appointment makes one
\* store call, the lookup, returns ok:false with a message and leaves every
\* appointment and every slot as it was; when the lookup reaches the store the
\* failure is NotFound.
C13_CancelNotFound ==
  CancelOfMissing =>
    /\ ~ret[1].ok
    /\ ret[1].message # ""
    /\ Len(Log) = 1
    /\ Log[1].call = "fetch"
    /\ Log[1].out = "ok" => ret[1] = Fail(MsgNotFound)
    /\ TablesAsBefore

\* NotFound was returned while an appointment, with another id, existed
C13_Witness ==
  /\ CancelOfMissing
  /\ pre.appointments # << >>
  /\ ret[1] = Fail(MsgNotFound)
  /\ appointments = pre.appointments

(***************************************************************************)
(* Properties of one listing call (SpecList): the call of caller 1 has     *)
(* returned, call[1].args are its arguments, ret[1] its result.            *)
(***************************************************************************)
Args == call[1].args
Today == FormatYMD(clock.tz, clock.now)
StartOf(s) == agenda_slots[s].datetime
\* the DayRange [start, start + 24 h) of a civil day
InDayRange(s, d) ==
  LET r == dayRangeUTCFromYYYYMMDD(clock.tz, d)
  IN r.startUTC <= StartOf(s) /\ StartOf(s) < r.endUTC
Elems(seq) == {seq[i] : i \in DOMAIN seq}
Ascending(seq) ==
  \A i, j \in DOMAIN seq : i < j => (StartOf(seq[i]) <= StartOf(seq[j]) /\ seq[i] # seq[j])
\* seq holds the n earliest rows of Q, or all of Q when Q has fewer
EarliestOf(seq, Q, n) ==
  /\ Elems(seq) \subseteq Q
  /\ Ascending(seq)
  /\ Len(seq) = IF Cardinality(Q) < n THEN Cardinality(Q) ELSE n
  /\ \A s \in Q \ Elems(seq) : \A i \in DOMAIN seq : StartOf(seq[i]) <= StartOf(s)

\* the day a day listing is about: the day asked for, tomorrow when none is
AskedDay == IF Args.dia = NoDay THEN Today + 1 ELSE Args.dia
AskedLimit(hard) ==
  IF Args.limite = 0 THEN DefaultLimit
  ELSE IF Args.limite < hard THEN Args.limite ELSE hard
\* the free slots of the doctors M in the DayRange of the day asked for, those
\* that have not started when that day was given and is today
FreeOfAskedDay(M) ==
  {s \in DOMAIN agenda_slots :
     /\ agenda_slots[s].medico_id \in M
     /\ agenda_slots[s].status = "livre"
     /\ InDayRange(s, AskedDay)
     /\ Args.dia = Today => StartOf(s) >= clock.now}

\* C16: slotsForDoctorOnDay(doctorId, day, limit), when the store answers,
\* returns only free slots of that doctor that start in the DayRange of the day
\* asked for (tomorrow in the clinic time zone when day is omitted), and, when
\* that day is today, have not started; in ascending order of start; the
\* earliest min(limit, 100) of them, 12 when limit is omitted, or all when there
\* are fewer.
C16_DoctorDaySlots ==
  (Done("listarHorariosMedico") /\ ret[1].ok /\ Args.dia # BadDay) =>
    EarliestOf(ret[1].slots, FreeOfAskedDay({Args.medicoId}), AskedLimit(HardLimit))

\* a day listing of one doctor or of a specialty has answered
DayListingDone ==
  (Done("listarHorariosMedico") \/ Done("listarHorariosPorEspecialidade")) /\ ret[1].ok
\* the doctors a day listing is about
AskedMedicos ==
  IF call[1].op = "listarHorariosMedico" THEN {Args.medicoId}
  ELSE {m \in DOMAIN catalog.medicos :
          catalog.medicos[m].especialidade_id = Args.especialidadeId}
AskedHardLimit ==
  IF call[1].op = "listarHorariosMedico" THEN HardLimit ELSE SpecialtyHardLimit
\* the free slots of the doctors asked for in the DayRange of day d
FreeInDay(d) ==
  {s \in DOMAIN agenda_slots :
     /\ agenda_slots[s].medico_id \in AskedMedicos
     /\ agenda_slots[s].status = "livre"
     /\ InDayRange(s, d)}

\* C17: when the day passed to slotsForDoctorOnDay or slotsForSpecialtyOnDay is
\* the clinic's current civil day, no returned slot starts earlier than now;
\* for any other day, no free slot in the day's range is left out because it
\* starts before now: the result is the earliest ones of all the free slots of
\* the range, up to the limit.
C17_TodayTrimming ==
  (DayListingDone /\ Args.dia \in ListDays) =>
    IF Args.dia = Today
    THEN \A s \in Elems(ret[1].slots) : StartOf(s) >= clock.now
    ELSE EarliestOf(ret[1].slots, FreeInDay(Args.dia), AskedLimit(AskedHardLimit))

\* a listing of today by specialty that leaves out a slot of the morning and
\* lists one of the afternoon
C17_Witness ==
  /\ Done("listarHorariosPorEspecialidade") /\ ret[1].ok
  /\ Args.dia = Today
  /\ ret[1].slots # << >>
  /\ \E s \in FreeInDay(Today) : StartOf(s) < clock.now

(***************************************************************************)
(* Properties of one listing by specialty (SpecSpecialty).                  *)
(***************************************************************************)
\* the specialties a reference stands for: the id given, else the names that
\* contain the term, else the names that contain the normalized term
Resolution ==
  LET original == TrimText(Args.especialidadeNome)
      normalized == normalizeEspecialidadeTerm(original)
      byOriginal == SelectEspecialidades(catalog.especialidades, original)
  IN IF Args.especialidadeId # 0 THEN {Args.especialidadeId}
     ELSE IF Args.especialidadeNome = NoText THEN {}
     ELSE IF byOriginal # << >> THEN Elems(byOriginal)
     ELSE IF normalized # NoText
     THEN Elems(SelectEspecialidades(catalog.especialidades, normalized))
     ELSE {}
DoctorsOf(E) ==
  {m \in DOMAIN catalog.medicos : catalog.medicos[m].especialidade_id \in E}
Threw == \E i \in DOMAIN Log : Log[i].out = "throw"
StoreAnswered == \A i \in DOMAIN Log : Log[i].out = "ok"
Queried(table) == \E i \in DOMAIN Log : Log[i].call = table

\* C20: when the specialty reference resolves to no specialty id, or to
\* specialties without doctors, and the store answers, slotsForSpecialtyOnDay
\* returns ok:true with an empty list of slots; and when nothing in the catalog
\* matches the reference, the resolver gives its caller the empty list even if
\* its query ends with an error: the listing returns the empty result without
\* asking for doctors.
C20_EmptyResolution ==
  Done("listarHorariosPorEspecialidade") =>
    /\ (StoreAnswered /\ DoctorsOf(Resolution) = {}) => ret[1] = SlotsOk(<< >>)
    /\ (~Threw /\ Resolution = {}) =>
         (ret[1] = SlotsOk(<< >>) /\ ~Queried("medicos") /\ ~Queried("slots"))

\* a name that matches no specialty, as it is or normalized, listed as empty
\* after both queries of the resolver
C20_Witness ==
  /\ Done("listarHorariosPorEspecialidade")
  /\ Args.especialidadeId = 0 /\ Args.especialidadeNome # NoText
  /\ Resolution = {}
  /\ Len(Log) = 2 /\ StoreAnswered
  /\ ret[1] = SlotsOk(<< >>)

(***************************************************************************)
(* Properties of the weekly agendas (SpecList).                             *)
(***************************************************************************)
WeeklyDone ==
  /\ Done("listarAgendaSemanalMedico") \/ Done("listarAgendaSemanalEspecialidade")
  /\ ret[1].ok
  /\ ret[1].agenda # << >>
\* the doctors a weekly agenda is about
WeekMedicos ==
  IF call[1].op = "listarAgendaSemanalMedico" THEN {Args.medicoId}
  ELSE DoctorsOf(Resolution)
\* the civil days from today through Sunday: day 7 and day 14 are Sundays
DaysThroughSunday == ((DaysPerWeek - (Today % DaysPerWeek)) % DaysPerWeek) + 1

\* C18: weeklyAgendaForDoctor and weeklyAgendaForSpecialty return exactly
\* totalDays entries, entry i for the civil day i - 1 days after today, through
\* Sunday, none missing or repeated (1 entry on a Sunday, 7 on a Monday); every
\* listed slot is a free slot of the doctors asked for and starts on the civil
\* day of its entry; the slots of the first entry start at or after now.
C18_WeeklyAgenda ==
  WeeklyDone =>
    /\ ret[1].dias = DaysThroughSunday
    /\ Len(ret[1].agenda) = DaysThroughSunday
    /\ \A k \in DOMAIN ret[1].agenda :
         /\ ret[1].agenda[k].dia = Today + k - 1
         /\ \A s \in Elems(ret[1].agenda[k].slots) :
              /\ agenda_slots[s].status = "livre"
              /\ agenda_slots[s].medico_id \in WeekMedicos
              /\ FormatYMD(clock.tz, StartOf(s)) = ret[1].agenda[k].dia
              /\ k = 1 => StartOf(s) >= clock.now

(***************************************************************************)
(* Properties of the next available day (SpecList).                         *)
(***************************************************************************)
NextDayDone ==
  /\ \/ Done("listarProximoDiaDisponivelMedico")
     \/ Done("listarProximoDiaDisponivelEspecialidade")
  /\ ret[1].ok
  /\ StoreAnswered
  /\ Args.dia # BadDay
NextDayMedicos ==
  IF call[1].op = "listarProximoDiaDisponivelMedico" THEN {Args.medicoId}
  ELSE DoctorsOf(Resolution)
\* the starting point: the start of fromDay, or now
StartingPoint ==
  IF Args.dia = NoDay THEN clock.now
  ELSE dayRangeUTCFromYYYYMMDD(clock.tz, Args.dia).startUTC
FreeOf(M) ==
  {s \in DOMAIN agenda_slots :
     agenda_slots[s].medico_id \in M /\ agenda_slots[s].status = "livre"}
FreeFrom(M, t) == {s \in FreeOf(M) : StartOf(s) >= t}
CivilDay(s) == FormatYMD(clock.tz, StartOf(s))

\* C19: nextAvailableDay returns as day the civil day of the earliest free slot
\* of the doctors asked for that starts at or after the starting point, and as
\* slots every free slot of those doctors on that civil day (those with start
\* >= now when that day is today), ascending; when there is no free slot at or
\* after the starting point it returns ok:true, day null and no slots.
C19_NextAvailableDay ==
  NextDayDone =>
    LET Cand == FreeFrom(NextDayMedicos, StartingPoint)
    IN IF Cand = {}
       THEN ret[1] = DayOk(NoDay, << >>)
       ELSE LET e == CHOOSE s \in Cand : \A t \in Cand : StartOf(s) <= StartOf(t)
                d == CivilDay(e)
            IN /\ ret[1].dia = d
               /\ Ascending(ret[1].slots)
               /\ Elems(ret[1].slots) =
                    {s \in FreeOf(NextDayMedicos) :
                       /\ CivilDay(s) = d
                       /\ d = Today => StartOf(s) >= clock.now}

(***************************************************************************)
(* Properties of one call of any tool (SpecTools).                          *)
(***************************************************************************)
ToolOps ==
  {"validarDataHora", "book", "cancel", "listarHorariosMedico",
   "listarAgendaSemanalMedico", "listarProximoDiaDisponivelMedico",
   "listarEspecialidades", "listarMedicos"} \cup SpecialtyOps
Returned == pc[1] = "idle" /\ pre.valid /\ call[1].op \in ToolOps

\* C14: every tool operation returns a result with a boolean ok and, when ok is
\* false, a message that is not empty, whatever the store did: after an error
\* or an exception of a store call the caller still gets such a result, never
\* the exception.
C14_ResultShape ==
  Returned =>
    /\ ret[1].ok \in BOOLEAN
    /\ ~ret[1].ok => ret[1].message # ""
    /\ (\E i \in DOMAIN Log : Log[i].out = "throw") => (~ret[1].ok /\ ret[1].message # "")

\* a day listing whose query threw, answered with ok:false and a message
C14_Witness ==
  /\ Done("listarHorariosPorEspecialidade")
  /\ Len(Log) = 2 /\ Log[2] = [call |-> "slots", out |-> "throw"]
  /\ ~ret[1].ok /\ ret[1].message # ""

(***************************************************************************)
(* The listings leave the store as it is (SpecList).                        *)
(***************************************************************************)
ListingOps == ToolOps \ {"validarDataHora", "book", "cancel"}

\* C15: no listing changes a slot, an appointment, a doctor or a specialty: from
\* the call of a listing on, through each of its store calls and at its return,
\* the tables are the tables the call started from.
C15_ListingsReadOnly ==
  (pre.valid /\ call[1].op \in ListingOps) =>
    /\ TablesAsBefore
    /\ catalog = Catalog

\* a listing by specialty that resolved the name, found the doctors and
\* returned slots
C15_Witness ==
  /\ Done("listarHorariosPorEspecialidade")
  /\ ret[1].ok /\ ret[1].slots # << >>
  /\ Len(Log) = 3
  /\ TablesAsBefore


(***************************************************************************)
(* Properties of the resolution of a specialty name (SpecResolve).          *)
(***************************************************************************)
\* the state in which _resolveEspecialidadeIds has returned to its caller, and
\* the ids it returned
ResolverReturned ==
  /\ call[1].op # "" /\ ~Threw
  /\ \/ pc[1] = "medicos"
     \/ pc[1] = "idle" /\ ~Queried("medicos")
ResolvedIds == IF pc[1] = "medicos" THEN Elems(loc[1].espIds) ELSE {}
NamedAs(term) == Args.especialidadeId = 0 /\ Args.especialidadeNome = term
Matching(term) == Elems(SelectEspecialidades(catalog.especialidades, term))

\* C21 as stated: for every catalog, when the store answers, a professional
\* title of the alias table and the noun of its specialty resolve to the same
\* set of specialty ids, the ids of the names that contain the noun.
C21_Original ==
  \A a \in TitleAliases :
    (ResolverReturned /\ StoreAnswered /\ (NamedAs(a.from) \/ NamedAs(a.to)))
      => ResolvedIds = Matching(a.to)

\* C21: for every catalog in which no specialty name contains the professional
\* title itself, when the store answers, the title and the noun of its
\* specialty resolve to the same set of specialty ids, the ids of the names
\* that contain the noun.
C21_AliasResolution ==
  \A a \in TitleAliases :
    (ResolverReturned /\ StoreAnswered /\ (NamedAs(a.from) \/ NamedAs(a.to))
       /\ Matching(a.from) = {})
      => ResolvedIds = Matching(a.to)

\* a title resolved by its second query to the specialty of its noun
C21_Witness ==
  \E a \in TitleAliases :
    /\ ResolverReturned /\ StoreAnswered /\ NamedAs(a.from)
    /\ Len(Log) = 2
    /\ ResolvedIds = Matching(a.to) /\ ResolvedIds # {}

(***************************************************************************)
(* Properties of the search of doctors by name (SpecSearch).                *)
(***************************************************************************)
\* a search that the store answered: the rows it gave, the candidates of the
\* page and their scores
Searched ==
  /\ Done("listarMedicos")
  /\ Len(Log) = 1 /\ Log[1].out = "ok"
Data == Log[1].data
PageSize == Limite(Args.limite, SearchDefaultLimit, SpecialtyHardLimit)
Candidates == Take(Data, PageSize)
FurtherPages == Len(Data) > PageSize
ScoreOf(i) == Max(Candidates[i].sim, Candidates[i].sim_clean)
UniqueRule == Len(Candidates) = 1 /\ ~FurtherPages
BestOnes == {i \in DOMAIN Candidates : \A j \in DOMAIN Candidates : ScoreOf(i) >= ScoreOf(j)}
BestScore == ScoreOf(CHOOSE i \in BestOnes : TRUE)
\* the score of the second of the candidates in the order of their scores
SecondScore ==
  LET rest == DOMAIN Candidates \ {CHOOSE i \in BestOnes : TRUE}
  IN ScoreOf(CHOOSE i \in rest : \A j \in rest : ScoreOf(i) >= ScoreOf(j))
Rounded3(x) == CHOOSE k \in 0..1000 : 10 * k - 5 <= x /\ x < 10 * k + 5
ResolvedId == ret[1].resolvedMedicoId

\* C22: a search with a query whose answer is exactly one candidate, with no
\* further page, is resolved to that candidate with confidence 1 and reason
\* unique, whatever the similarity of the candidate.
C22_UniqueCandidate ==
  (Searched /\ UniqueRule) =>
    /\ ResolvedId = Candidates[1].id
    /\ ret[1].confidence = 1000
    /\ ret[1].resolvedBy = "unique"

\* a single candidate below the threshold of similarity, resolved
C22_Witness ==
  /\ Searched /\ UniqueRule
  /\ BestScore < TOP_SIM_THRESHOLD * SimScale
  /\ ResolvedId = Candidates[1].id /\ ret[1].resolvedBy = "unique"

\* C23: when the unique rule does not apply, the search is resolved exactly
\* when the best score is at least 0.82 and there is no second candidate or
\* the best score is at least 0.12 above the second; it is then resolved to a
\* candidate of the best score, by db_fuzzy, with the best score rounded to
\* three decimals as confidence; the score of a candidate is the larger of its
\* two similarities.
C23_FuzzyRule ==
  (Searched /\ ~UniqueRule) =>
    LET sure == /\ Candidates # << >>
                /\ BestScore >= 8200
                /\ (Len(Candidates) < 2 \/ BestScore - SecondScore >= 1200)
    IN /\ (ResolvedId # "") = sure
       /\ sure => /\ \E i \in BestOnes : ResolvedId = Candidates[i].id
                  /\ ret[1].resolvedBy = "db_fuzzy"
                  /\ ret[1].confidence = Rounded3(BestScore)
       /\ ~sure => ret[1].resolvedBy = "" /\ ret[1].confidence = NoConfidence

\* a candidate that is not the first row resolved against others, with a
\* confidence that is the score rounded up
C23_Witness ==
  /\ Searched /\ Len(Candidates) >= 2
  /\ ret[1].resolvedBy = "db_fuzzy"
  /\ ResolvedId # Candidates[1].id
  /\ ret[1].confidence * 10 > BestScore

\* C24: in every ok result of a search with a query, ambiguous is true exactly
\* when no resolved id is present; two candidates of scores 0.55 and 0.50 give
\* ambiguous and no resolved id.
C24_AmbiguousOrResolved ==
  (Done("listarMedicos") /\ Len(Log) = 1 /\ ret[1].ok) =>
    /\ ret[1].ambiguous = (ResolvedId = "")
    /\ (Len(Candidates) = 2 /\ {ScoreOf(1), ScoreOf(2)} = {5500, 5000})
         => (ret[1].ambiguous /\ ResolvedId = "")

\* the two candidates of scores 0.55 and 0.50, ambiguous
C24_Witness ==
  /\ Searched /\ Len(Candidates) = 2
  /\ ScoreOf(1) = 5500 /\ ScoreOf(2) = 5000
  /\ ret[1].ambiguous /\ ResolvedId = ""

\* C25: a search without a query, or with a blank one, asks the store nothing
\* and returns ok:true with no candidate and needBusca, not a failure.
C25_NeedsQuery ==
  (Done("listarMedicos") /\ \A i \in DOMAIN Args.busca : Args.busca[i] = " ") =>
    /\ Log = << >>
    /\ ret[1] = [ok |-> TRUE, message |-> MsgNeedBusca, medicos |-> << >>,
                 needBusca |-> TRUE]

\* a query of blanks answered by needBusca
C25_Witness ==
  /\ Done("listarMedicos")
  /\ Args.busca # NoText /\ \A i \in DOMAIN Args.busca : Args.busca[i] = " "
  /\ ret[1].ok /\ ret[1].medicos = << >> /\ Log = << >>

(***************************************************************************)
(* Properties of validarDataHora (SpecValidate).                            *)
(***************************************************************************)
\* the civil day of the clinic at the clock
ClinicDay == (clock.now + (IF clock.now >= clock.tz.at THEN clock.tz.base + clock.tz.shift
                           ELSE clock.tz.base)) \div 24
DateOnly == Done("validarDataHora") /\ ~Args.isNull /\ ~Args.hasTime

\* C26: validarDataHora on a text normalized to a civil day without time
\* returns ok:false when the day is before the clinic's current civil day, and
\* ok:true with hasTime:false and no instant when it is today or later.
C26_DateWithoutTime ==
  DateOnly =>
    IF Args.ymdLocal < ClinicDay
    THEN ~ret[1].ok
    ELSE /\ ret[1].ok /\ ~ret[1].hasTime
         /\ ret[1].isoUTC = 0 /\ ret[1].ymdLocal = Args.ymdLocal

\* today without time accepted late in the evening, when the day of UTC is
\* already tomorrow
C26_Witness ==
  /\ DateOnly
  /\ Args.ymdLocal = ClinicDay
  /\ clock.now \div 24 > ClinicDay
  /\ ret[1].ok /\ ~ret[1].hasTime

(***************************************************************************)
(* Properties of helpers/datetime.js (SpecTime).                            *)
(***************************************************************************)
\* the wall clock of the zone at an instant, in hours, and its civil day
OffsetAt(t) == IF t >= clock.tz.at THEN clock.tz.base + clock.tz.shift ELSE clock.tz.base
WallClock(t) == t + OffsetAt(t)
CivilDate(t) == WallClock(t) \div 24
\* the instants at which the wall clock shows hour h of day d
InstantsOf(d, h) == {t \in 0..400 : WallClock(t) = 24 * d + h}

\* C27: for every civil day d and zone, also on the day of a transition and
\* with a transition at local midnight, the start of dayRangeFor(tz, d) is an
\* instant whose civil date in the zone is d.
C27_RoundTrip ==
  Done("dayRangeUTCFromYYYYMMDD") => CivilDate(ret[1].startUTC) = Args.ymd

\* C28: for every wall-clock time that exists exactly once in the zone, in the
\* week around a transition, utcFromTZComponents returns the one instant at
\* which the wall clock of the zone shows that time, which is
\* naive - offset(naive - offset(naive)).
C28_CivilToUtc ==
  (Done("utcFromTZComponents") /\ Cardinality(InstantsOf(Args.ymd, Args.h)) = 1) =>
    LET naive == 24 * Args.ymd + Args.h
    IN /\ ret[1].date \in InstantsOf(Args.ymd, Args.h)
       /\ ret[1].date = naive - OffsetAt(naive - OffsetAt(naive))

\* the first hour after a gap, and the hour after a repeated one, converted
C28_Witness ==
  /\ Done("utcFromTZComponents")
  /\ Cardinality(InstantsOf(Args.ymd, Args.h)) = 1
  /\ clock.tz.shift # 0
  /\ OffsetAt(24 * Args.ymd + Args.h) # OffsetAt(ret[1].date)
  /\ WallClock(ret[1].date) = 24 * Args.ymd + Args.h

\* C29: for every instant now and zone, nextDayRangeUtc(tz, now) starts at the
\* start of dayRangeFor(tz, the day after now's civil date) and ends 24 hours
\* later, also when today or tomorrow has a transition.
C29_NextDayRange ==
  Done("nextDayRangeUTC") =>
    /\ ret[1].start = dayRangeUTCFromYYYYMMDD(clock.tz, CivilDate(clock.now) + 1).startUTC
    /\ ret[1].end = ret[1].start + 24

(***************************************************************************)
(* Properties of a day argument that is no YYYY-MM-DD (SpecList).           *)
(***************************************************************************)
\* C30: a listing that is given a day that is not a well-formed YYYY-MM-DD
\* fails (InvalidDateFormat): it does not answer for tomorrow, for now or for
\* any other range in place of the day.
C30_InvalidDateFormat ==
  /\ (Done("listarHorariosMedico") /\ Args.medicoId # "" /\ Args.dia = BadDay)
       => ~ret[1].ok
  /\ (Done("listarProximoDiaDisponivelMedico") /\ Args.medicoId # ""
        /\ Args.dia = BadDay)
       => ~ret[1].ok

(***************************************************************************)
(* Properties of a compensation that fails (Spec).                          *)
(***************************************************************************)
\* a booking whose compensating update did not succeed
RollbackFailed ==
  /\ Done("book")
  /\ \E i \in DOMAIN Log : Log[i].call = "rollback" /\ Log[i].out \in {"error", "throw"}
Console == call[1].console

\* C31: when the compensating update of bookAppointment fails, by an error
\* result or by an exception, a line of its own that names the orphaned slot
\* is logged, the call returns ok:false, and the compensating update is the
\* last store call of the booking.
C31_RollbackFailureLogged ==
  RollbackFailed =>
    /\ \E i \in DOMAIN Console :
         /\ Console[i].text \in {LogRollbackFailed, LogRollbackAfterThrowFailed}
         /\ Console[i].slot = call[1].reserved
    /\ ~ret[1].ok
    /\ Log[Len(Log)].call = "rollback"

(***************************************************************************)
(* Properties of the status of a slot (Spec).                               *)
(***************************************************************************)
\* the step is taken by a caller that stands at one of the labels
StepAt(labels) == \E p \in Procs : pc[p] \in labels /\ pc'[p] # pc[p]

\* C32: a slot is always livre or agendado; a step changes the status of a
\* slot only from livre to agendado, in a conditional update of a reservation,
\* or to livre, in the release of a cancellation or the compensation of a
\* booking; and a reservation gains a slot only if the slot was livre at the
\* update.
C32_StatusTransitions ==
  [][\A s \in SlotIds :
       /\ agenda_slots'[s].status \in {"livre", "agendado"}
       /\ agenda_slots'[s].status # agenda_slots[s].status =>
            \/ /\ agenda_slots[s].status = "livre"
               /\ agenda_slots'[s].status = "agendado"
               /\ StepAt({"reserve", "lock"})
            \/ /\ agenda_slots'[s].status = "livre"
               /\ StepAt({"release", "rollback_error", "rollback_catch"})
       /\ (s \in viaFlow' \ viaFlow \/ (call'[1].reserved = s /\ call[1].reserved # s))
            => (agenda_slots[s].status = "livre" /\ StepAt({"reserve", "lock"}))]_vars

\* a slot that a booking reserved and whose cancellation set it free again
C32_Witness ==
  /\ Done("cancel") /\ ret[1].ok
  /\ \E s \in SlotIds :
       /\ pre.agenda_slots[s].status = "agendado"
       /\ agenda_slots[s].status = "livre"
       /\ \E i \in DOMAIN appointments :
            appointments[i].slot_id = s /\ appointments[i].status = CANCEL_STATUS

(***************************************************************************)
(* Properties of the reservation by instant and doctor (SpecRace).          *)
(***************************************************************************)
\* C33: the reservation by instant and doctor looks the slot up and then updates
\* it conditionally: when the candidate is no longer livre at the update and the
\* store does not throw, the call returns the SlotUnavailable failure and
\* changes no slot; and among concurrent reservations, by id or by instant, at
\* most one succeeds for a slot, and only for a slot that was livre.
C33_LookupThenConditionalUpdate ==
  /\ [](\A s \in SlotIds :
          /\ Cardinality(Winners(s)) <= 1
          /\ Winners(s) # {} => pre.agenda_slots[s].status = "livre")
  /\ [][\A p \in Racers :
          (/\ pc[p] = "lock" /\ pc'[p] # "lock"
           /\ agenda_slots[loc[p].candidate].status # "livre"
           /\ LastOut(call'[p].log) # "throw")
            => /\ ret'[p] = Fail(MsgUnavailable)
               /\ agenda_slots' = agenda_slots]_vars

\* a caller by instant found slot 1 livre, another caller reserved it, and the
\* update of the first matched nothing
C33_Witness ==
  \E p, q \in Racers :
    /\ p # q
    /\ call[p].slotId = 0 /\ pc[p] = "idle"
    /\ call[p].log = <<[call |-> "find", out |-> "ok"], [call |-> "reserve", out |-> "ok"]>>
    /\ ret[p] = Fail(MsgUnavailable)
    /\ ret[q].ok /\ ret[q].slotId = 1

(***************************************************************************)
(* Properties of a repeated booking (SpecConc).                             *)
(***************************************************************************)
\* an appointment that is not canceled references slot s
Booked(s) == \E i \in DOMAIN appointments : Live(i) /\ appointments[i].slot_id = s

\* C34: while an appointment that is not canceled holds a slot, a booking
\* that passes the id of that slot again fails at its reservation: it ends
\* there, reserves nothing and creates no appointment.
C34_RetryRefused ==
  [][\A p \in Procs :
       (/\ pc[p] = "reserve" /\ pc'[p] # "reserve"
        /\ loc[p].caller = "book"
        /\ loc[p].slotId \in SlotIds
        /\ Booked(loc[p].slotId))
         => /\ pc'[p] = "idle"
            /\ agenda_slots' = agenda_slots
            /\ appointments' = appointments]_vars

(***************************************************************************)
(* validarDataHora on a text with a time (SpecValidate).                    *)
(***************************************************************************)
WithTime == Done("validarDataHora") /\ ~Args.isNull /\ Args.hasTime

\* C35: validarDataHora on a text with an explicit time returns ok:true, with
\* hasTime:true and the UTC instant, only when the normalized instant is
\* strictly later than now; an instant equal to or before now, or hasTime
\* without an instant, gives ok:false.
C35_StrictlyFuture ==
  WithTime =>
    /\ ret[1].ok <=> (Args.isoUTC # 0 /\ Args.isoUTC > clock.now)
    /\ ret[1].ok => (ret[1].hasTime /\ ret[1].isoUTC = Args.isoUTC)

\* the first instant after now is accepted
C35_Witness ==
  /\ WithTime
  /\ Args.isoUTC = clock.now + 1
  /\ ret[1].ok /\ ret[1].hasTime /\ ret[1].isoUTC = clock.now + 1

(***************************************************************************)
(* helpers/whats-format.js and runChatTurn (index.js)                       *)
(***************************************************************************)
\* String.prototype.replaceAll on a text: from left to right, without overlap
RECURSIVE ReplaceAll(_, _, _)
ReplaceAll(t, from, to) ==
  IF Len(t) < Len(from) THEN t
  ELSE IF SubSeq(t, 1, Len(from)) = from
  THEN to \o ReplaceAll(SubSeq(t, Len(from) + 1, Len(t)), from, to)
  ELSE <<Head(t)>> \o ReplaceAll(Tail(t), from, to)

Includes(t, part) ==
  \E i \in 1..(Len(t) - Len(part) + 1) : SubSeq(t, i, i + Len(part) - 1) = part

\* while (t.includes('**')) t = t.replaceAll('**', '*')
RECURSIVE CollapseStars(_)
CollapseStars(t) ==
  IF Includes(t, <<"*", "*">>) THEN CollapseStars(ReplaceAll(t, <<"*", "*">>, <<"*">>))
  ELSE t

STOP == <<<<"o", "u">>, <<"e">>, <<"d", "e">>, <<"d", "a">>, <<"d", "o">>,
          <<"d", "a", "s">>, <<"d", "o", "s">>, <<"a">>, <<"o">>,
          <<"a", "s">>, <<"o", "s">>>>

\* the three replacements of one connective
Unstar(t, w) ==
  LET t1 == ReplaceAll(t, <<" ", "*">> \o w \o <<"*", " ">>, <<" ">> \o w \o <<" ">>)
      t2 == ReplaceAll(t1, <<" ", "*">> \o w \o <<"*">>, <<" ">> \o w)
  IN ReplaceAll(t2, <<"*">> \o w \o <<"*", " ">>, w \o <<" ">>)

RECURSIVE UnstarFrom(_, _)
UnstarFrom(t, k) == IF k > Len(STOP) THEN t ELSE UnstarFrom(Unstar(t, STOP[k]), k + 1)

\* asterisks stuck to brackets and commas, and one on its own
Unstick(t) ==
  LET t1 == ReplaceAll(ReplaceAll(t, <<"*", " ", ")">>, <<")">>), <<"(", "*">>, <<"(">>)
      t2 == ReplaceAll(ReplaceAll(t1, <<"*", " ", ",">>, <<",">>),
                       <<",", " ", "*">>, <<",", " ">>)
  IN ReplaceAll(t2, <<" ", "*", " ">>, <<" ">>)

sanitizeWhats(text) ==
  IF text = NoText THEN text
  ELSE TrimText(Unstick(UnstarFrom(CollapseStars(text), 1)))

\* runChatTurn runs in frame 2; the tool it awaits runs in frame 1
ChatRounds == 4
FallbackText ==
  <<"N", "a~", "o", " ", "c", "o", "n", "s", "e", "g", "u", "i", " ",
   "c", "o", "n", "c", "l", "u", "i", "r", " ", "a", "g", "o", "r", "a",
   ".", " ", "V", "a", "m", "o", "s", " ", "t", "e", "n", "t", "a", "r",
   " ", "n", "o", "v", "a", "m", "e", "n", "t", "e", "?">>
\* the tool names of the dispatch and the tool each one runs
ToolOf(name) ==
  CASE name = "validarDataHora" -> "validarDataHora"
    [] name = "criarAgendamento" -> "book"
    [] name = "listarEspecialidades" -> "listarEspecialidades"
    [] name = "listarMedicos" -> "listarMedicos"
    [] name = "listarMedicosPorEspecialidade" -> "listarMedicosPorEspecialidade"
    [] name = "listarHorariosMedico" -> "listarHorariosMedico"
    [] name = "listarAgendaSemanalMedico" -> "listarAgendaSemanalMedico"
    [] name = "listarProximoDiaDisponivelMedico" -> "listarProximoDiaDisponivelMedico"
    [] name = "listarHorariosPorEspecialidade" -> "listarHorariosPorEspecialidade"
    [] name = "listarAgendaSemanalEspecialidade" -> "listarAgendaSemanalEspecialidade"
    [] name = "listarProximoDiaDisponivelEspecialidade"
         -> "listarProximoDiaDisponivelEspecialidade"
    [] OTHER -> ""
UnknownFunction(name) == [ok |-> FALSE, message |-> "Funcao desconhecida: " \o name]

\* what the model may answer: a text (also an empty one), or a function call,
\* with or without a text beside it; the names asked for in a turn
ChatTexts ==
  {NoText, <<"o", "i">>, <<"*", "*", "o", "i", "*", "*", " ">>,
   <<"a", " ", "*", "e", "*", " ", "b">>}
ChatNames == {"validarDataHora", "criarAgendamento", "listarEspecialidades",
              "cancelarAgendamento"}
ModelReplies ==
  [fc : {""}, text : ChatTexts]
    \cup [fc : ChatNames, text : {NoText}]
    \cup {[fc |-> "listarEspecialidades", text |-> <<"o", "i">>]}

ChatCall == [op |-> "runChatTurn", log |-> << >>, console |-> << >>, reserved |-> 0]
ChatLoc == [caller |-> "chat", i |-> 0, fc |-> "",
            contents |-> <<[role |-> "user", kind |-> "clock"],
                           [role |-> "user", kind |-> "message"]>>,
            ctxDelta |-> << >>]
ChatThrew == [threw |-> TRUE, text |-> NoText, ctxDelta |-> << >>]
ChatResult(text, ctxDelta) == [threw |-> FALSE, text |-> text, ctxDelta |-> ctxDelta]

echoCall(fc) == [role |-> "model", kind |-> "functionCall", name |-> fc]
echoReply(fc, toolResult) ==
  [role |-> "tool", kind |-> "functionResponse", name |-> fc, response |-> toolResult]
ModelText(text) == [role |-> "model", kind |-> "text", text |-> text]

\* runChatTurn(history, message) up to its first await
CallRunChatTurn ==
  /\ pc[2] = "idle" /\ pc[1] = "idle"
  /\ call[2].op = ""
  /\ pc' = [pc EXCEPT ![2] = "model"]
  /\ loc' = [loc EXCEPT ![2] = ChatLoc]
  /\ call' = [call EXCEPT ![2] = ChatCall]
  /\ UNCHANGED <<agenda_slots, appointments, ret, pre, viaFlow, calls, clock, catalog, wa>>

\* mutant: the pair is not kept in ctxDelta
AfterToolNoDelta(l, c, toolResult, ran) ==
  LET pair == <<echoCall(l.fc), echoReply(l.fc, toolResult)>>
      l2 == [l EXCEPT !.contents = @ \o pair, !.i = @ + 1, !.fc = ""]
  IN /\ call' = [c EXCEPT ![2].log = Append(@, [call |-> "tool", out |-> ran])]
     /\ IF l2.i < ChatRounds
        THEN /\ pc' = [pc EXCEPT ![2] = "model"]
             /\ loc' = [loc EXCEPT ![2] = l2]
             /\ ret' = ret
        ELSE /\ pc' = [pc EXCEPT ![2] = "idle"]
             /\ loc' = [loc EXCEPT ![2] = NoLoc]
             /\ ret' = [ret EXCEPT ![2] = ChatResult(FallbackText, l2.ctxDelta)]

\* the end of a round of the loop: the pair is appended to contents and to
\* ctxDelta, and after the last round the fallback text is returned; c is the
\* record of the calls so far, ran the tool that was executed ("" when the name
\* is unknown)
AfterTool(l, c, toolResult, ran) ==
  LET pair == <<echoCall(l.fc), echoReply(l.fc, toolResult)>>
      l2 == [l EXCEPT !.contents = @ \o pair, !.ctxDelta = @ \o pair,
                      !.i = @ + 1, !.fc = ""]
  IN /\ call' = [c EXCEPT ![2].log = Append(@, [call |-> "tool", out |-> ran])]
     /\ IF l2.i < ChatRounds
        THEN /\ pc' = [pc EXCEPT ![2] = "model"]
             /\ loc' = [loc EXCEPT ![2] = l2]
             /\ ret' = ret
        ELSE /\ pc' = [pc EXCEPT ![2] = "idle"]
             /\ loc' = [loc EXCEPT ![2] = NoLoc]
             /\ ret' = [ret EXCEPT ![2] = ChatResult(FallbackText, l2.ctxDelta)]

\* await model.generateContent({ contents }): it throws, answers with a text,
\* or asks for a function; a known function is started in frame 1, an unknown
\* one is answered at once
GenerateContent ==
  /\ pc[2] = "model"
  /\ \/ /\ pc' = [pc EXCEPT ![2] = "idle"]
        /\ loc' = [loc EXCEPT ![2] = NoLoc]
        /\ ret' = [ret EXCEPT ![2] = ChatThrew]
        /\ call' = [call EXCEPT ![2].log = Append(@, [call |-> "model", out |-> "throw"])]
     \/ \E r \in ModelReplies :
          IF r.fc = ""
          THEN LET clean == sanitizeWhats(r.text)
               IN /\ pc' = [pc EXCEPT ![2] = "idle"]
                  /\ loc' = [loc EXCEPT ![2] = NoLoc]
                  /\ ret' = [ret EXCEPT ![2] =
                               ChatResult(clean, Append(loc[2].ctxDelta, ModelText(clean)))]
                  /\ call' = [call EXCEPT ![2].log =
                                Append(@, [call |-> "model", out |-> "text"])]
          ELSE IF ToolOf(r.fc) # ""
          THEN /\ pc' = [pc EXCEPT ![2] = "tool"]
               /\ loc' = [loc EXCEPT ![2].fc = r.fc]
               /\ ret' = [ret EXCEPT ![1] = NoRet]
               /\ call' = [call EXCEPT ![1] = NoCall,
                                       ![2].log = Append(@, [call |-> "model", out |-> r.fc])]
          ELSE LET c == [call EXCEPT ![2].log = Append(@, [call |-> "model", out |-> r.fc])]
                   l2 == [loc[2] EXCEPT !.fc = r.fc]
               IN AfterTool(l2, c, UnknownFunction(r.fc), "")
  /\ UNCHANGED <<agenda_slots, appointments, pre, viaFlow, calls, clock, catalog, wa>>

\* the awaited tool has returned: toolResult is its result
ToolReturned ==
  /\ pc[2] = "tool" /\ pc[1] = "idle" /\ call[1].op # ""
  /\ AfterTool(loc[2], call, ret[1], call[1].op)
  /\ UNCHANGED <<agenda_slots, appointments, pre, viaFlow, calls, clock, catalog, wa>>

\* the dispatch: the tool named by the model is called, with the arguments
\* the model gave
Dispatched(name) == pc[2] = "tool" /\ loc[2].fc = name /\ call[1].op = ""
\* in a turn the model asks to check a text that is no date or the next instant,
\* and to book slot 1 by its id
ToolValidarDataHora ==
  /\ Dispatched("validarDataHora")
  /\ CallValidarDataHora(1, ChatRounds + 1)
  /\ \/ call'[1].args.isNull
     \/ /\ call'[1].args.hasTime
        /\ call'[1].args.isoUTC = clock.now + 1
        /\ call'[1].args.ymdLocal = FormatYMD(clock.tz, clock.now)
ToolCriarAgendamento ==
  /\ Dispatched("criarAgendamento")
  /\ CallBook(1, "full", ChatRounds + 1)
  /\ call'[1].slotId = 1 /\ call'[1].medicoId = ""
ToolListarEspecialidades ==
  Dispatched("listarEspecialidades") /\ CallEspecialidades(1, ChatRounds + 1)

\* one turn of the chat over two free slots: the model asks for a date check, a
\* booking, the list of specialties or a function that does not exist; every
\* store call may succeed, return an error or throw
InitChat ==
  /\ agenda_slots = [s \in SlotIds |-> [medico_id |-> CatalogMedico(s),
                                        datetime |-> CatalogTime(s), status |-> "livre"]]
  /\ appointments = << >>
  /\ pc = [p \in Procs |-> "idle"]
  /\ loc = [p \in Procs |-> NoLoc]
  /\ ret = [p \in Procs |-> NoRet]
  /\ call = [p \in Procs |-> NoCall]
  /\ pre = [agenda_slots |-> agenda_slots, appointments |-> << >>, valid |-> FALSE]
  /\ viaFlow = {}
  /\ calls = 0
  /\ clock = [now |-> SaturdayNoon, tz |-> TzFixed]
  /\ catalog = Catalog
  /\ wa = NoWa

NextChat ==
  \/ CallRunChatTurn
  \/ GenerateContent
  \/ ToolReturned
  \/ ToolValidarDataHora
  \/ ToolCriarAgendamento
  \/ ToolListarEspecialidades
  \/ ReserveById(1, Outcomes)
  \/ InsertAppointment(1, Outcomes)
  \/ RollbackAfterError(1, Outcomes)
  \/ RollbackInCatch(1, Outcomes)
  \/ SelectNomes(1, Outcomes)

SpecChat == InitChat /\ [][NextChat]_vars

\* every await of a turn completes: the model answers and the store answers
SpecChatFair == SpecChat /\ WF_vars(NextChat)

(***************************************************************************)
(* Properties of runChatTurn (SpecChatFair).                                *)
(***************************************************************************)
ChatLog == call[2].log
InTurn == call[2].op = "runChatTurn"
ChatDone == InTurn /\ pc[2] = "idle"
\* the model calls made, the functions the model asked for and the rounds of
\* the loop that ended, in order
ModelCalls == SelectSeq(ChatLog, LAMBDA e : e.call = "model")
Asked == SelectSeq(ModelCalls, LAMBDA e : e.out \notin {"text", "throw"})
Rounds == SelectSeq(ChatLog, LAMBDA e : e.call = "tool")
Executed == SelectSeq(Rounds, LAMBDA e : e.out # "")
\* ctxDelta as it stands
Delta == IF pc[2] = "idle" THEN ret[2].ctxDelta ELSE loc[2].ctxDelta
PairsOf(delta, n) ==
  \A k \in 1..n :
    /\ delta[2 * k - 1] = echoCall(Asked[k].out)
    /\ delta[2 * k].role = "tool" /\ delta[2 * k].name = Asked[k].out
    /\ Rounds[k].out = ToolOf(Asked[k].out)
    /\ ToolOf(Asked[k].out) = "" => ~delta[2 * k].response.ok

\* C36: a turn ends; it makes at most 4 model calls and executes at most 4
\* tools; when the model still asks for a function on the 4th call the turn
\* returns the fixed fallback text; ctxDelta holds one (function call, tool
\* reply) pair per round in the order of execution, followed by the final text
\* of the model when the turn ended with one; an unknown function name gives
\* a tool reply with ok:false.
C36_ChatTurn ==
  /\ [](InTurn =>
          /\ Len(ModelCalls) <= ChatRounds
          /\ Len(Executed) <= ChatRounds /\ calls <= ChatRounds
          /\ (ChatDone /\ ret[2].threw) => ModelCalls[Len(ModelCalls)].out = "throw"
          /\ ~(ChatDone /\ ret[2].threw) =>
               /\ Len(Delta) >= 2 * Len(Rounds)
               /\ PairsOf(Delta, Len(Rounds))
               /\ ~ChatDone => Len(Delta) = 2 * Len(Rounds)
               /\ ChatDone =>
                    IF ModelCalls[Len(ModelCalls)].out = "text"
                    THEN /\ Len(Delta) = 2 * Len(Rounds) + 1
                         /\ Delta[Len(Delta)] = ModelText(ret[2].text)
                    ELSE /\ Len(Asked) = ChatRounds /\ Len(Rounds) = ChatRounds
                         /\ Len(Delta) = 2 * ChatRounds
                         /\ ret[2].text = FallbackText)
  /\ (InTurn ~> ChatDone)

\* four rounds, one of them for a function that does not exist and one that
\* booked slot 1, ended by the fallback text
C36_Witness ==
  /\ ChatDone /\ ~ret[2].threw
  /\ ret[2].text = FallbackText
  /\ Len(ret[2].ctxDelta) = 2 * ChatRounds
  /\ \E k \in 1..ChatRounds : Rounds[k].out = ""
  /\ \E k \in 1..ChatRounds : Rounds[k].out = "book" /\ ret[2].ctxDelta[2 * k].response.ok
  /\ agenda_slots[1].status = "agendado"

(***************************************************************************)
(* The next available day of a doctor, asked from today (SpecList).         *)
(***************************************************************************)
\* the free slots of the doctor of the call that start at or after now
FreeFromNow ==
  {s \in DOMAIN agenda_slots : /\ agenda_slots[s].medico_id = Args.medicoId
                               /\ agenda_slots[s].status = "livre"
                               /\ StartOf(s) >= clock.now}
NextDayFromToday ==
  /\ Done("listarProximoDiaDisponivelMedico")
  /\ Args.medicoId # ""
  /\ Args.dia \in {NoDay, Today}
  /\ StoreAnswered

\* C37: when the doctor has a free slot that starts at or after now, the next
\* available day asked without a day, or from today's civil date, is a day
\* with a non-empty list of slots.
C37_NextDayNotEmpty ==
  (NextDayFromToday /\ FreeFromNow # {}) =>
    /\ ret[1].ok
    /\ ret[1].dia # NoDay
    /\ ret[1].slots # << >>

(***************************************************************************)
(* The margin of the fuzzy rule over every row of the answer (SpecSearch).  *)
(***************************************************************************)
\* the rows of the answer of the search other than the resolved one whose
\* score is less than MARGIN below the score of the resolved one
RowScore(i) == Max(Data[i].sim, Data[i].sim_clean)
CloseRows ==
  {i \in DOMAIN Data :
     /\ Data[i].id # ResolvedId
     /\ \E j \in DOMAIN Data : /\ Data[j].id = ResolvedId
                               /\ RowScore(j) - RowScore(i) < MARGIN * SimScale}

\* C38: for every page size, a search is not resolved by the fuzzy rule when
\* the answer of the similarity search holds another row whose score is within
\* 0.12 of the best, also when that row is the extra one that was fetched to
\* compute hasMore and cut off from the page.
C38_MarginOverAnswer ==
  (Searched /\ ret[1].resolvedBy = "db_fuzzy") => CloseRows = {}

(***************************************************************************)
(* session.js, helpers/signature.js and the webhook of whatsapp.js          *)
(***************************************************************************)
IDEMP_TTL == 36        \* IDEMP_TTL_SEC, in hours
MAX_TURNS == 12
\* the HMAC of a body under a key, as the header carries it: equal exactly for
\* the same key and the same body
Hmac(key, rawBody) == <<"sha256=", key, rawBody>>
NoHeader == << >>
AppSecret == "secret"
verifyWebhookSignature(rawBody, signatureHeader, appSecret) ==
  IF signatureHeader = NoHeader \/ appSecret = "" THEN FALSE
  ELSE Hmac(appSecret, rawBody) = signatureHeader

\* the raw bodies: one that is no JSON, and objects with the ids of their
\* messages in order (0: a message without id)
NoJson == [object |-> "", messages |-> << >>, json |-> FALSE]
Body(object, ids) == [object |-> object, messages |-> ids, json |-> TRUE]
Bodies ==
  {NoJson, Body("page", <<1>>)}
    \cup {Body("whatsapp_business_account", ids) : ids \in {<<1>>, <<1, 2>>, <<0>>}}
\* the headers tried with a body: none, the HMAC of the body under the secret,
\* and the HMAC of another body
HeadersFor(b) == {NoHeader, Hmac(AppSecret, b), Hmac(AppSecret, Body("page", << >>))}
Requests == UNION {{[body |-> b, signature |-> h] : h \in HeadersFor(b)} : b \in Bodies}

Ok200 == [ok |-> TRUE, message |-> "OK", status |-> 200]

\* the moves of the handler: to an await, to the catch (which answers 200), and
\* to the next message of the request or to the answer 200; a message without
\* id skips the key of redis
At(p, label, l) ==
  /\ pc' = [pc EXCEPT ![p] = label]
  /\ loc' = [loc EXCEPT ![p] = l]
  /\ ret' = ret
Answer200(p) ==
  /\ pc' = [pc EXCEPT ![p] = "idle"]
  /\ loc' = [loc EXCEPT ![p] = NoLoc]
  /\ ret' = [ret EXCEPT ![p] = Ok200]
NextMessage(p, l) ==
  IF l.rest = << >> THEN Answer200(p)
  ELSE LET l2 == [l EXCEPT !.msgId = Head(l.rest), !.rest = Tail(l.rest)]
       IN At(p, IF l2.msgId = 0 THEN "history" ELSE "seen", l2)

\* POST /whatsapp/webhook up to its first await on redis: isValid is computed,
\* the body is parsed (JSON.parse throws into the catch, which answers 200),
\* and the messages of a whatsapp_business_account object are processed in order
PostWebhook(p, max) ==
  \E req \in Requests :
    LET isValid == verifyWebhookSignature(req.body, req.signature, AppSecret)
        l == [caller |-> "webhook", req |-> req, isValid |-> isValid, msgId |-> 0,
              rest |-> IF req.body.object = "whatsapp_business_account"
                       THEN req.body.messages ELSE << >>,
              history |-> << >>, reply |-> NoText, ctxDelta |-> << >>]
    IN /\ Start(p, "none", max, NoCall)
       /\ IF ~req.body.json THEN Answer200(p) ELSE NextMessage(p, l)
       /\ UNCHANGED <<agenda_slots, appointments, viaFlow, clock, catalog, wa>>

\* what redis and the network can do at an await: answer or throw
WaOutcomes == {"ok", "throw"}
WaSame == UNCHANGED <<agenda_slots, appointments, pre, viaFlow, calls, clock, catalog>>

\* alreadyProcessed: redis.set(keySeen(id), '1', 'NX', 'EX', IDEMP_TTL_SEC); a key
\* lives until its expiry; null (the key lives) is a duplicate, which is skipped
alreadyProcessed(p, outs) ==
  /\ pc[p] = "seen"
  /\ \E out \in outs :
       /\ Logged(p, "seen", out, 0)
       /\ IF out = "throw"
          THEN Answer200(p) /\ wa' = wa
          ELSE IF wa.seen[loc[p].msgId] > clock.now
          THEN NextMessage(p, loc[p]) /\ wa' = wa
          ELSE /\ wa' = [wa EXCEPT !.seen[loc[p].msgId] = clock.now + IDEMP_TTL]
               /\ At(p, "history", loc[p])
  /\ WaSame

\* getHistory(userId): redis.get
getHistory(p, outs) ==
  /\ pc[p] = "history"
  /\ \E out \in outs :
       /\ Logged(p, "history", out, 0)
       /\ IF out = "throw" THEN Answer200(p)
          ELSE At(p, "turn", [loc[p] EXCEPT !.history = wa.history])
  /\ wa' = wa
  /\ WaSame

\* runChatTurn(history, text), awaited as one step: it returns a text and its
\* ctxDelta, or throws
TurnResults ==
  {[text |-> <<"o", "i">>, ctxDelta |-> <<ModelText(<<"o", "i">>)>>],
   [text |-> NoText, ctxDelta |-> <<ModelText(NoText)>>]}
AwaitChatTurn(p) ==
  /\ pc[p] = "turn"
  /\ \/ /\ Logged(p, "turn", "throw", 0)
        /\ Answer200(p)
     \/ \E r \in TurnResults :
          /\ Logged(p, "turn", "ok", 0)
          /\ At(p, "save", [loc[p] EXCEPT !.reply = r.text, !.ctxDelta = r.ctxDelta])
  /\ wa' = [wa EXCEPT !.turns[loc[p].msgId] = @ + 1]
  /\ WaSame

\* newHistory.slice(-(MAX_TURNS * 5))
LastOf(seq, n) == IF Len(seq) <= n THEN seq ELSE SubSeq(seq, Len(seq) - n + 1, Len(seq))
saveHistory(p, outs) ==
  /\ pc[p] = "save"
  /\ \E out \in outs :
       /\ Logged(p, "save", out, 0)
       /\ IF out = "throw"
          THEN Answer200(p) /\ wa' = wa
          ELSE LET newHistory == loc[p].history
                                   \o <<[role |-> "user", kind |-> "message"]>>
                                   \o loc[p].ctxDelta
               IN /\ wa' = [wa EXCEPT !.history = LastOf(newHistory, MAX_TURNS * 5),
                                      !.saves = @ + 1]
                  /\ At(p, "send", loc[p])
  /\ WaSame

\* sendWhatsAppText(userId, reply || '...'), counted per message id, then the
\* next message
sendWhatsAppText(p, outs) ==
  /\ pc[p] = "send"
  /\ \E out \in outs :
       /\ Logged(p, "send", out, 0)
       /\ IF out = "throw"
          THEN Answer200(p) /\ wa' = wa
          ELSE /\ wa' = [wa EXCEPT !.sent[loc[p].msgId] = @ + 1]
               /\ NextMessage(p, loc[p])
  /\ WaSame

\* a day passes
TickDays == 2
Tick ==
  /\ clock.now < SaturdayNoon + TickDays * HoursPerDay
  /\ clock' = [clock EXCEPT !.now = @ + HoursPerDay]
  /\ UNCHANGED <<agenda_slots, appointments, pc, loc, ret, call, pre, viaFlow, calls,
                 catalog, wa>>

\* NumProcs deliveries of the webhook at a time, Deliveries in all, with every
\* request of Requests; redis and the network may throw at every await
Deliveries == 2
NextWebhook ==
  \/ \E p \in 1..NumProcs :
       \/ PostWebhook(p, Deliveries)
       \/ alreadyProcessed(p, WaOutcomes)
       \/ getHistory(p, WaOutcomes)
       \/ AwaitChatTurn(p)
       \/ saveHistory(p, WaOutcomes)
       \/ sendWhatsAppText(p, WaOutcomes)
  \/ Tick

SpecWebhook == InitChat /\ [][NextWebhook]_vars

(***************************************************************************)
(* Properties of the webhook (SpecWebhook).                                 *)
(***************************************************************************)
\* C39: over all deliveries that carry a message id, one after the other or
\* at the same time, the chat turn of the message is run at most once and its
\* reply is sent at most once.
C39_TurnAtMostOnce ==
  \A m \in MsgIds : wa.turns[m] <= 1 /\ wa.sent[m] <= 1

\* the handler of a request whose signature header is missing or is not the
\* HMAC of its raw body takes a step
StepOfUnsigned(p) ==
  /\ pc[p] # "idle"
  /\ loc[p].caller = "webhook"
  /\ loc[p].req.signature # Hmac(AppSecret, loc[p].req.body)
  /\ (pc'[p] # pc[p] \/ loc'[p] # loc[p])

\* C40: the handler of a request whose x-hub-signature-256 header is missing
\* or does not match the HMAC of the raw body runs no chat turn, writes no
\* history and sends no reply.
C40_UnsignedNotProcessed ==
  [][\A p \in 1..NumProcs :
       StepOfUnsigned(p) => /\ wa'.turns = wa.turns
                            /\ wa'.history = wa.history
                            /\ wa'.saves = wa.saves
                            /\ wa'.sent = wa.sent]_vars

====
